---- MODULE Spec2Model ----
(***************************************************************************)
(* Investment-research report generator: the framework template, the       *)
(* override merge engine, the framework validator and the QA rule engine.  *)
(*                                                                         *)
(* Representation of Python values.                                        *)
(*   - A dict with string keys is a function from key strings to values.   *)
(*   - A str the code only passes around (a section name, an element key)  *)
(*     is a TLA+ string; a str the code inspects character by character    *)
(*     (sector_id, an override key, report content) is a sequence of       *)
(*     one-character strings.                                              *)
(*   - A value whose Python type is not fixed by the code (a section id    *)
(*     argument, an override-map key, an override, a word_count bound) is  *)
(*     tagged: I(n), S(chars), D(dict), L(list), None.                     *)
(*   - A call returns [exc, val, cat]: the exception raised ("none" when   *)
(*     it returns), the value returned, and the base catalog afterwards.   *)
(***************************************************************************)
EXTENDS Integers, Sequences, FiniteSets, TLC

VARIABLES
    BASE_SECTIONS,   \* the module-level catalog of base.py
    sector_config,   \* the caller's framework document as the call in hand leaves it
    call,            \* the call in hand: its name and its arguments as passed
    result,          \* what the call in hand returned or raised
    store,           \* the frameworks table of db.py: rows [id, config]
    companies,       \* the companies table of db.py: one row per company id
    reports          \* the reports table of db.py: one row per report id

vars == <<BASE_SECTIONS, sector_config, call, result, store, companies, reports>>

(***************************************************************************)
(* Tagged Python values                                                    *)
(***************************************************************************)
I(n) == [t |-> "int", n |-> n]
S(s) == [t |-> "str", s |-> s]
D(d) == [t |-> "dict", d |-> d]
L(l) == [t |-> "list", l |-> l]
None == [t |-> "None"]
Inf == [t |-> "inf"]

\* bool(v)
Truthy(v) ==
    CASE v.t = "None" -> FALSE
      [] v.t = "int"  -> v.n # 0
      [] v.t = "str"  -> Len(v.s) > 0
      [] v.t = "dict" -> DOMAIN v.d # {}
      [] v.t = "list" -> Len(v.l) > 0
      [] OTHER        -> TRUE

\* a or b
PyOr(a, b) == IF Truthy(a) THEN a ELSE b

(***************************************************************************)
(* Characters                                                              *)
(***************************************************************************)
DigitSeq == <<"0", "1", "2", "3", "4", "5", "6", "7", "8", "9">>
LowerSeq == <<"a", "b", "c", "d", "e", "f", "g", "h", "i", "j", "k", "l", "m",
              "n", "o", "p", "q", "r", "s", "t", "u", "v", "w", "x", "y", "z">>
UpperSeq == <<"A", "B", "C", "D", "E", "F", "G", "H", "I", "J", "K", "L", "M",
              "N", "O", "P", "Q", "R", "S", "T", "U", "V", "W", "X", "Y", "Z">>
Range(seq) == {seq[i] : i \in 1..Len(seq)}
Digits == Range(DigitSeq)
Letters == Range(LowerSeq) \cup Range(UpperSeq)

\* str.isdigit(), on ASCII text
isdigit(s) == Len(s) > 0 /\ \A i \in 1..Len(s) : s[i] \in Digits

\* str.isalnum(), on ASCII text
isalnum(s) == Len(s) > 0 /\ \A i \in 1..Len(s) : s[i] \in (Digits \cup Letters)

\* s.replace(c, "") for a one-character c
RECURSIVE RemoveChar(_, _)
RemoveChar(s, c) ==
    IF s = <<>> THEN <<>>
    ELSE IF Head(s) = c THEN RemoveChar(Tail(s), c)
    ELSE <<Head(s)>> \o RemoveChar(Tail(s), c)

DigitValue(c) == (CHOOSE i \in 1..10 : DigitSeq[i] = c) - 1

\* int(s) for a string of decimal digits
RECURSIVE int(_)
int(s) ==
    IF Len(s) = 0 THEN 0
    ELSE 10 * int(SubSeq(s, 1, Len(s) - 1)) + DigitValue(s[Len(s)])

\* str(n) for an integer n
RECURSIVE str(_)
str(n) ==
    IF n < 0 THEN <<"-">> \o str(0 - n)
    ELSE IF n < 10 THEN <<DigitSeq[n + 1]>>
    ELSE str(n \div 10) \o <<DigitSeq[(n % 10) + 1]>>

(***************************************************************************)
(* Dicts                                                                   *)
(***************************************************************************)
\* d[k] = v on a string-keyed dict
DictSet(d, k, v) == [x \in (DOMAIN d) \cup {k} |-> IF x = k THEN v ELSE d[x]]

\* d.get(k, default) on a string-keyed dict
Get(d, k, default) == IF k \in DOMAIN d THEN d[k] ELSE default

\* The section_overrides map keeps insertion order and has keys of either
\* type: a sequence of entries [k |-> key, v |-> override] with distinct keys.
\* overrides.get(key)
OverridesGet(entries, key) ==
    IF \E i \in 1..Len(entries) : entries[i].k = key
    THEN entries[CHOOSE i \in 1..Len(entries) : entries[i].k = key].v
    ELSE None

(***************************************************************************)
(* base.py: the base catalog                                               *)
(***************************************************************************)
WC_wider(lo, hi) == [min |-> I(lo), max |-> I(hi + 100)]

WC(lo, hi) == [min |-> I(lo), max |-> I(hi)]
CT(lo, hi) == [min |-> lo, max |-> hi]

BaseCatalog == <<
    [id |-> 1, name |-> "Executive Summary", word_count |-> WC(400, 500),
     required_elements |-> <<"headline_thesis", "key_catalysts", "headline_metrics",
                             "valuation_context", "mispricing_argument", "investor_takeaway">>,
     citation_target |-> CT(3, 5)],
    [id |-> 2, name |-> "Macroeconomic & Geopolitical Backdrop", word_count |-> WC(400, 600),
     subsections |-> <<"industry_tailwinds", "market_cycle_position",
                       "geopolitical_regulatory_context">>,
     citation_target |-> CT(4, 6)],
    [id |-> 3, name |-> "Strategic Positioning", word_count |-> WC(400, 600),
     variants |-> <<"restructuring", "business_overview", "m_and_a">>,
     citation_target |-> CT(3, 5)],
    [id |-> 4, name |-> "Operational Analysis - Primary", word_count |-> WC(800, 1200),
     required_elements |-> <<"segment_overview", "product_portfolio", "operational_kpis",
                             "outlook">>,
     citation_target |-> CT(8, 12)],
    [id |-> 5, name |-> "Operational Analysis - Secondary", word_count |-> WC(400, 600),
     citation_target |-> CT(3, 5)],
    [id |-> 6, name |-> "Associated Companies & Ecosystem", word_count |-> WC(300, 400),
     citation_target |-> CT(2, 4)],
    [id |-> 7, name |-> "Financial Performance Deep Dive", word_count |-> WC(600, 800),
     required_elements |-> <<"pnl_snapshot_table", "revenue_analysis", "margin_analysis",
                             "backlog_or_forward_metrics", "balance_sheet_cash_flow">>,
     citation_target |-> CT(6, 10)],
    [id |-> 8, name |-> "Masterclass", word_count |-> WC(800, 1000),
     purpose |-> "Teach readers how to analyze this company type",
     citation_target |-> CT(4, 6)],
    [id |-> 9, name |-> "Peer Valuation & Comparative Analysis", word_count |-> WC(500, 700),
     required_elements |-> <<"peer_comparison_table", "valuation_discussion",
                             "fair_value_estimate">>,
     citation_target |-> CT(5, 7)],
    [id |-> 10, name |-> "Risks & Challenges", word_count |-> WC(400, 600),
     required_elements |-> <<"risk_1_with_probability_impact", "risk_2_with_probability_impact",
                             "risk_3_with_probability_impact">>,
     citation_target |-> CT(3, 5)],
    [id |-> 11, name |-> "Conclusion & Monitoring Framework", word_count |-> WC(300, 400),
     required_elements |-> <<"thesis_restatement", "monitoring_points",
                             "actionable_recommendations">>,
     citation_target |-> CT(2, 3)] >>

(***************************************************************************)
(* Call outcomes                                                           *)
(***************************************************************************)
Return(v, cat) == [exc |-> "none", val |-> v, cat |-> cat]
Raise(e, cat) == [exc |-> e, val |-> None, cat |-> cat]

(***************************************************************************)
(* base.py: get_base_section                                               *)
(* The value returned is a dict object: ref = 0 says it is a fresh object  *)
(* (section.copy()), ref = i that it is the i-th object of the catalog.    *)
(***************************************************************************)
\* section["id"] == section_id
IdEquals_coercing(id, section_id) ==
    \/ section_id.t = "int" /\ section_id.n = id
    \/ section_id.t = "str" /\ isdigit(section_id.s) /\ int(section_id.s) = id

IdEquals(id, section_id) == section_id.t = "int" /\ section_id.n = id

FindSection(cat, section_id) ==
    IF \E i \in 1..Len(cat) : IdEquals(cat[i]["id"], section_id)
    THEN CHOOSE i \in 1..Len(cat) :
            /\ IdEquals(cat[i]["id"], section_id)
            /\ \A j \in 1..(i - 1) : ~IdEquals(cat[j]["id"], section_id)
    ELSE 0

get_base_section_aliased(cat, section_id) ==
    LET i == FindSection(cat, section_id) IN
    IF i = 0 THEN None ELSE [t |-> "dict", d |-> cat[i], ref |-> i]

get_base_section(cat, section_id) ==
    LET i == FindSection(cat, section_id) IN
    IF i = 0 THEN None ELSE [t |-> "dict", d |-> cat[i], ref |-> 0]

(***************************************************************************)
(* base.py: build_effective_section                                        *)
(***************************************************************************)
\* The catalog after the dict object `ref` has been written to: a fresh
\* object (ref = 0) is no part of the catalog.
Store(cat, ref, obj) == IF ref = 0 THEN cat ELSE [cat EXCEPT ![ref] = obj]

\* key in overrides, for a dict or a list
Contains(overrides, key) ==
    CASE overrides.t = "dict" -> key \in DOMAIN overrides.d
      [] overrides.t = "list" -> \E i \in 1..Len(overrides.l) : overrides.l[i] = key
      [] OTHER -> FALSE

\* if "name_override" in overrides: base["name"] = overrides["name_override"]
ApplyNameOverride_ignored(base, O) == base

ApplyNameOverride(base, O) ==
    IF "name_override" \in DOMAIN O THEN DictSet(base, "name", O["name_override"]) ELSE base

\* if "required_elements" in overrides: base["required_elements"] = overrides["required_elements"]
ApplyRequiredElements(base, O) ==
    IF "required_elements" \in DOMAIN O
    THEN DictSet(base, "required_elements", O["required_elements"]) ELSE base

\* if "subsections" in overrides: base["subsections"] = overrides["subsections"]
ApplySubsections(base, O) ==
    IF "subsections" \in DOMAIN O THEN DictSet(base, "subsections", O["subsections"]) ELSE base

\* for key, value in overrides.items(): if key not in ("name_override",): base[key] = value
CopyItems_setdefault(base, O) ==
    LET K == (DOMAIN O) \ {"name_override"} IN
    [x \in (DOMAIN base) \cup K |-> IF x \in DOMAIN base THEN base[x] ELSE O[x]]

CopyItems(base, O) ==
    LET K == (DOMAIN O) \ {"name_override"} IN
    [x \in (DOMAIN base) \cup K |-> IF x \in K THEN O[x] ELSE base[x]]

build_effective_section(cat, section_id, overrides) ==
    LET b == get_base_section(cat, section_id) IN
    IF b.t = "None" THEN Raise("ValueError", cat)
    ELSE IF overrides.t = "None" THEN Return(b.d, cat)
    \* "name_override" in overrides: an int is not iterable
    ELSE IF overrides.t \notin {"dict", "list"} THEN Raise("TypeError", cat)
    ELSE IF overrides.t = "list" THEN
        \* a list that holds one of the three keys is then subscripted by it;
        \* any other list has no .items()
        IF \/ Contains(overrides, "name_override")
           \/ Contains(overrides, "required_elements")
           \/ Contains(overrides, "subsections")
        THEN Raise("TypeError", cat)
        ELSE Raise("AttributeError", cat)
    ELSE
        LET O  == overrides.d
            s1 == ApplyNameOverride(b.d, O)
            s2 == ApplyRequiredElements(s1, O)
            s3 == ApplySubsections(s2, O)
            s4 == CopyItems(s3, O)
        IN  Return(s4, Store(cat, b.ref, s4))

(***************************************************************************)
(* base.py: build_effective_framework                                      *)
(***************************************************************************)
\* overrides.get(sid) or overrides.get(str(sid))
LookupOverride_int_only(overrides, sid) == OverridesGet(overrides, I(sid))

LookupOverride(overrides, sid) ==
    PyOr(OverridesGet(overrides, I(sid)), OverridesGet(overrides, S(str(sid))))

\* for base_section in BASE_SECTIONS: ... sections.append(...)
RECURSIVE EffectiveSections(_, _, _, _)
EffectiveSections(cat, overrides, i, sections) ==
    IF i > Len(cat) THEN Return(sections, cat)
    ELSE
        LET sid == cat[i]["id"]
            r   == build_effective_section(cat, I(sid), LookupOverride(overrides, sid))
        IN  IF r.exc # "none" THEN r
            ELSE EffectiveSections(r.cat, overrides, i + 1, Append(sections, r.val))

Str_unknown == <<"u", "n", "k", "n", "o", "w", "n">>
Str_Unknown == <<"U", "n", "k", "n", "o", "w", "n">>

build_effective_framework(cat, config) ==
    LET overrides == Get(config, "section_overrides", <<>>)
        r == EffectiveSections(cat, overrides, 1, <<>>)
    IN  IF r.exc # "none" THEN r
        ELSE Return([sector_id |-> Get(config, "sector_id", S(Str_unknown)),
                     display_name |-> Get(config, "display_name", S(Str_Unknown)),
                     description |-> Get(config, "description", ""),
                     sections |-> r.val,
                     data_requirements |-> Get(config, "data_requirements", <<>>)],
                    r.cat)

(***************************************************************************)
(* validator.py: validate_framework                                        *)
(***************************************************************************)
REQUIRED_FRAMEWORK_FIELDS == <<"sector_id", "display_name">>
VALID_SECTION_IDS == {BaseCatalog[i]["id"] : i \in 1..Len(BaseCatalog)}

\* The messages, by the rule that produces them and what they name.
MissingField(field) == [rule |-> "missing_field", subject |-> [t |-> "field", name |-> field]]
BadSectorId(sector_id) == [rule |-> "sector_id_format", subject |-> sector_id]
InvalidSectionKey(key) == [rule |-> "invalid_section_id", subject |-> key]
MinExceedsMax(key) == [rule |-> "word_count_min_exceeds_max", subject |-> key]

\* Byte order of the characters that occur in compared strings.
CharOrder == <<" ">> \o DigitSeq \o UpperSeq \o <<"_">> \o LowerSeq
Ord(c) == CHOOSE i \in 1..Len(CharOrder) : CharOrder[i] = c

RECURSIVE StrGt(_, _)
StrGt(a, b) ==
    IF a = <<>> THEN FALSE
    ELSE IF b = <<>> THEN TRUE
    ELSE IF Head(a) = Head(b) THEN StrGt(Tail(a), Tail(b))
    ELSE Ord(Head(a)) > Ord(Head(b))

IsNumber(v) == v.t \in {"int", "inf"}
\* a > b and a < b are defined between numbers and between strings
Comparable(a, b) == (IsNumber(a) /\ IsNumber(b)) \/ (a.t = "str" /\ b.t = "str")
PyGt(a, b) ==
    IF a.t = "str" THEN StrGt(a.s, b.s)
    ELSE IF a.t = "inf" THEN b.t # "inf"
    ELSE IF b.t = "inf" THEN FALSE
    ELSE a.n > b.n

\* if not framework.get(field): errors.append(...)
MissingFieldErrors(framework) ==
    LET Missing(field) == ~Truthy(Get(framework, field, None))
        fields == SelectSeq(REQUIRED_FRAMEWORK_FIELDS, Missing)
    IN  [i \in 1..Len(fields) |-> MissingField(fields[i])]

\* sid = int(key) if isinstance(key, str) and key.isdigit() else key
ResolveKey(key) == IF key.t = "str" /\ isdigit(key.s) THEN I(int(key.s)) ELSE key

\* sid not in VALID_SECTION_IDS
KeyIsValid(key) ==
    LET sid == ResolveKey(key) IN sid.t = "int" /\ sid.n \in VALID_SECTION_IDS

RECURSIVE SectionKeyErrors(_, _)
SectionKeyErrors(overrides, i) ==
    IF i > Len(overrides) THEN <<>>
    ELSE (IF KeyIsValid(overrides[i].k) THEN <<>> ELSE <<InvalidSectionKey(overrides[i].k)>>)
         \o SectionKeyErrors(overrides, i + 1)

\* for key, override in overrides.items(): if "word_count" in override: ...
RECURSIVE WordCountErrors(_, _, _)
WordCountErrors(overrides, i, errors) ==
    IF i > Len(overrides) THEN [exc |-> "none", val |-> errors]
    ELSE
        LET key == overrides[i].k
            override == overrides[i].v
        IN  IF override.t \notin {"dict", "list"} THEN [exc |-> "TypeError", val |-> None]
            ELSE IF ~Contains(override, "word_count")
                 THEN WordCountErrors(overrides, i + 1, errors)
            ELSE IF override.t = "list" THEN [exc |-> "TypeError", val |-> None]
            ELSE
                LET wc == override.d["word_count"]
                    lo == Get(wc, "min", I(0))
                    hi == Get(wc, "max", Inf)
                IN  IF ~Comparable(lo, hi) THEN [exc |-> "TypeError", val |-> None]
                    ELSE WordCountErrors(overrides, i + 1,
                             IF PyGt(lo, hi) THEN Append(errors, MinExceedsMax(key))
                             ELSE errors)

\* sector_id.replace("_", "").isalnum()
SectorIdFormatOk(s) == isalnum(RemoveChar(s, "_"))

validate_framework(framework) ==
    LET missing   == MissingFieldErrors(framework)
        sector_id == Get(framework, "sector_id", S(<<>>))
        overrides == Get(framework, "section_overrides", <<>>)
    IN  IF Truthy(sector_id) /\ sector_id.t # "str"
        THEN [exc |-> "AttributeError", val |-> None]
        ELSE
            LET format == IF Truthy(sector_id) /\ ~SectorIdFormatOk(sector_id.s)
                          THEN <<BadSectorId(sector_id)>> ELSE <<>>
                keys   == SectionKeyErrors(overrides, 1)
            IN  WordCountErrors(overrides, 1, missing \o format \o keys)

(***************************************************************************)
(* validator.py: validate_section_content                                  *)
(***************************************************************************)
Whitespace == {" ", "\n", "\t"}

\* The positions at which a whitespace-separated word of content starts
WordStarts(content) ==
    {i \in 1..Len(content) :
        /\ content[i] \notin Whitespace
        /\ (i = 1 \/ content[i - 1] \in Whitespace)}

\* len(content.split())
WordCount(content) == Cardinality(WordStarts(content))

UnknownSection(section_id) == [rule |-> "unknown_section", subject |-> section_id]
BelowMinimum(section_id) == [rule |-> "below_minimum", subject |-> section_id]
ExceedsMaximum(section_id) == [rule |-> "exceeds_maximum", subject |-> section_id]

\* str(section_id)
StrOf(v) == IF v.t = "int" THEN S(str(v.n)) ELSE v

validate_section_content(cat, section_id, content, framework) ==
    LET overrides == Get(framework, "section_overrides", <<>>)
        section_override ==
            PyOr(PyOr(OverridesGet(overrides, section_id),
                      OverridesGet(overrides, StrOf(section_id))),
                 D(<<>>))
        i == FindSection(cat, section_id)
    IN  IF i = 0 THEN [exc |-> "none", val |-> <<UnknownSection(section_id)>>]
        ELSE IF section_override.t # "dict" THEN [exc |-> "AttributeError", val |-> None]
        ELSE
            LET wc == Get(section_override.d, "word_count", cat[i]["word_count"])
                word_count == I(WordCount(content))
            IN  IF "min" \notin DOMAIN wc THEN [exc |-> "KeyError", val |-> None]
                ELSE IF ~Comparable(word_count, wc["min"]) THEN [exc |-> "TypeError", val |-> None]
                ELSE IF "max" \notin DOMAIN wc THEN [exc |-> "KeyError", val |-> None]
                ELSE IF ~Comparable(word_count, wc["max"]) THEN [exc |-> "TypeError", val |-> None]
                ELSE [exc |-> "none",
                      val |-> (IF PyGt(wc["min"], word_count)
                               THEN <<BelowMinimum(section_id)>> ELSE <<>>)
                              \o (IF PyGt(word_count, wc["max"])
                                  THEN <<ExceedsMaximum(section_id)>> ELSE <<>>)]

(***************************************************************************)
(* Inputs                                                                  *)
(***************************************************************************)
MaxSectionIdArg == 12
MaxOverrideKeys == 2
MaxOverrides == 2

SectionIdArgs ==
    {I(n) : n \in 0..MaxSectionIdArg} \cup {I(0 - 1), S(<<"3">>), S(<<"1", "1">>)}

WordCountArgs ==
    { [min |-> I(1), max |-> I(2)],
      [min |-> I(2), max |-> I(2)],
      [min |-> I(2), max |-> I(1)],
      [min |-> I(1)],
      [max |-> I(2)],
      [min |-> S(<<"a">>), max |-> I(2)],
      [min |-> S(<<"b">>), max |-> S(<<"a">>)] }

OverrideKeys ==
    {"name_override", "name", "required_elements", "subsections", "word_count", "id",
     "peer_groups"}

OverrideValues(key) ==
    CASE key = "name_override"     -> {"Custom Name"}
      [] key = "name"              -> {"Renamed"}
      [] key = "required_elements" -> {<<"x">>, <<>>}
      [] key = "subsections"       -> {<<"s1", "s2">>}
      [] key = "word_count"        -> WordCountArgs
      [] key = "id"                -> {5}
      [] key = "peer_groups"       -> {<<"fabless">>}

RECURSIVE DictsOver(_)
DictsOver(K) ==
    IF K = {} THEN {<<>>}
    ELSE LET k == CHOOSE x \in K : TRUE IN
         {DictSet(d, k, v) : d \in DictsOver(K \ {k}), v \in OverrideValues(k)}

OverrideDicts ==
    UNION {DictsOver(K) : K \in {X \in SUBSET OverrideKeys : Cardinality(X) <= MaxOverrideKeys}}

NonDictOverrides == {I(5), I(0), L(<<"x">>), L(<<"word_count">>), L(<<"subsections">>)}

OverrideArgs == {D(d) : d \in OverrideDicts} \cup NonDictOverrides

KeyArgs ==
    {I(1), I(3), I(11), I(0), I(12),
     S(<<"1">>), S(<<"3">>), S(<<"0", "3">>), S(<<"1", "2">>), S(<<"x">>), S(<<>>)}

Str_semi == <<"s", "e", "m", "i">>
Str_Semi_Test == <<"S", "e", "m", "i", " ", "T", "e", "s", "t">>

ValidTop ==
    [sector_id |-> S(Str_semi), display_name |-> S(Str_Semi_Test),
     description |-> "Semiconductors", data_requirements |-> [financials |-> <<"revenue">>]]

SectorIdArgs ==
    {S(<<>>), S(<<"a", "b">>), S(<<"a", "_", "1">>), S(<<"_">>), S(<<"_", "_">>),
     S(<<"a", " ", "b">>), S(<<"A", "-", "1">>), I(7), I(0)}

DisplayNameArgs == {S(<<>>), S(<<"X">>)}

TopLevels ==
    {[sector_id |-> sid, display_name |-> dn] : sid \in SectorIdArgs, dn \in DisplayNameArgs}
    \cup {[sector_id |-> sid] : sid \in SectorIdArgs}
    \cup {[display_name |-> dn] : dn \in DisplayNameArgs}
    \cup {<<>>}

WithOverrides(top, overrides) == DictSet(top, "section_overrides", overrides)

Entry(k, v) == [k |-> k, v |-> v]

\* Maps whose violations, if any, are known: none, a bad key, an inverted
\* word_count, both.
ProbeMaps ==
    { <<>>,
      <<Entry(I(1), D([name_override |-> "Custom Name"]))>>,
      <<Entry(I(12), D(<<>>))>>,
      <<Entry(S(<<"3">>), D([word_count |-> [min |-> I(2), max |-> I(1)]]))>>,
      <<Entry(I(99), D([word_count |-> [min |-> I(2), max |-> I(1)]])),
        Entry(S(<<"x">>), D([word_count |-> [min |-> I(2), max |-> I(1)]]))>> }

SmallKeyArgs == {I(1), S(<<"1">>), S(<<"3">>), I(12)}
SmallOverrideArgs ==
    {D(<<>>), D([name_override |-> "Custom Name"]),
     D([word_count |-> [min |-> I(2), max |-> I(1)]])}

RECURSIVE MapsUpTo(_)
MapsUpTo(n) ==
    IF n = 0 THEN {<<>>}
    ELSE LET shorter == MapsUpTo(n - 1) IN
         shorter \cup
         {Append(m, Entry(k, v)) :
             m \in {x \in shorter : Len(x) = n - 1},
             k \in SmallKeyArgs, v \in SmallOverrideArgs}

DistinctKeys(m) == \A i, j \in 1..Len(m) : m[i].k = m[j].k => i = j

SingleEntryDocs ==
    {WithOverrides(ValidTop, <<Entry(k, v)>>) : k \in KeyArgs, v \in OverrideArgs}

FrameworkDocs ==
    TopLevels
    \cup {WithOverrides(top, m) : top \in TopLevels, m \in ProbeMaps}
    \cup SingleEntryDocs
    \cup {WithOverrides(ValidTop, m) : m \in {x \in MapsUpTo(MaxOverrides) : DistinctKeys(x)}}

ContentArgs ==
    { <<>>, <<"a">>, <<"a", " ", "b">>, <<" ", "a", " ", " ", "b", "\n", "c", "\t">> }

ContentDocs ==
    {ValidTop}
    \cup {WithOverrides(ValidTop, <<Entry(k, v)>>) :
             k \in KeyArgs,
             v \in {D(<<>>)} \cup {D([word_count |-> wc]) : wc \in WordCountArgs}
                   \cup NonDictOverrides}

(***************************************************************************)
(* The calls                                                               *)
(***************************************************************************)
Outcome(r) == [exc |-> r.exc, val |-> r.val]

Idle == call.op = "none"

Init ==
    /\ BASE_SECTIONS = BaseCatalog
    /\ sector_config = None
    /\ call = [op |-> "none"]
    /\ result = [exc |-> "none", val |-> None]
    /\ store = {}
    /\ companies = {}
    /\ reports = {}

GetBaseSection ==
    /\ Idle
    /\ \E section_id \in SectionIdArgs :
        /\ call' = [op |-> "get_base_section", section_id |-> section_id]
        /\ result' = [exc |-> "none", val |-> get_base_section(BASE_SECTIONS, section_id)]
        /\ UNCHANGED <<BASE_SECTIONS, sector_config, store, companies, reports>>

BuildEffectiveSection ==
    /\ Idle
    /\ \E section_id \in SectionIdArgs, overrides \in OverrideArgs \cup {None} :
        LET r == build_effective_section(BASE_SECTIONS, section_id, overrides) IN
        /\ call' = [op |-> "build_effective_section", section_id |-> section_id,
                    overrides |-> overrides]
        /\ result' = Outcome(r)
        /\ BASE_SECTIONS' = r.cat
        /\ UNCHANGED <<sector_config, store, companies, reports>>

BuildEffectiveFramework ==
    /\ Idle
    /\ \E config \in FrameworkDocs :
        LET r == build_effective_framework(BASE_SECTIONS, config) IN
        /\ call' = [op |-> "build_effective_framework", sector_config |-> config]
        /\ result' = Outcome(r)
        /\ BASE_SECTIONS' = r.cat
        /\ sector_config' = config
        /\ UNCHANGED <<store, companies, reports>>

ValidateFramework ==
    /\ Idle
    /\ \E framework \in FrameworkDocs :
        /\ call' = [op |-> "validate_framework", framework |-> framework]
        /\ result' = validate_framework(framework)
        /\ sector_config' = framework
        /\ UNCHANGED <<BASE_SECTIONS, store, companies, reports>>

ValidateSectionContent ==
    /\ Idle
    /\ \E section_id \in SectionIdArgs, content \in ContentArgs, framework \in ContentDocs :
        /\ call' = [op |-> "validate_section_content", section_id |-> section_id,
                    content |-> content, framework |-> framework]
        /\ result' = validate_section_content(BASE_SECTIONS, section_id, content, framework)
        /\ sector_config' = framework
        /\ UNCHANGED <<BASE_SECTIONS, store, companies, reports>>

\* The caller is done with the result; the catalog stays as the calls left it.
Finish ==
    /\ ~Idle
    /\ call' = [op |-> "none"]
    /\ result' = [exc |-> "none", val |-> None]
    /\ sector_config' = None
    /\ UNCHANGED <<BASE_SECTIONS, store, companies, reports>>

Next ==
    \/ GetBaseSection
    \/ BuildEffectiveSection
    \/ BuildEffectiveFramework
    \/ ValidateFramework
    \/ ValidateSectionContent
    \/ Finish

Spec == Init /\ [][Next]_vars

(***************************************************************************)
(* Properties of the merge engine                                          *)
(***************************************************************************)
Messages(errors) == {errors[i] : i \in 1..Len(errors)}

\* validate_framework returns no errors
Accepted(framework) ==
    LET v == validate_framework(framework) IN v.exc = "none" /\ Len(v.val) = 0

ValidId(section_id) == section_id.t = "int" /\ section_id.n \in 1..11

BaseOf(n) == BaseCatalog[CHOOSE i \in 1..Len(BaseCatalog) : BaseCatalog[i]["id"] = n]

EffectiveSectionBuilt ==
    /\ call.op = "build_effective_section"
    /\ ValidId(call.section_id)
    /\ call.overrides.t = "dict"
    /\ result.exc = "none"

\* Every value of the config's section_overrides map is an override struct.
OverridesAreStructs(config) ==
    LET overrides == Get(config, "section_overrides", <<>>) IN
    \A e \in 1..Len(overrides) : overrides[e].v.t = "dict"

\* C1: for every sector config for which validate_framework returns no
\* errors, whatever keys its overrides carry, build_effective_framework
\* returns a sections list of exactly 11 elements whose i-th element has id i.
C1_ElevenSectionsInOrder ==
    (/\ call.op = "build_effective_framework"
     /\ Accepted(call.sector_config)
     /\ OverridesAreStructs(call.sector_config))
    => /\ result.exc = "none"
       /\ Len(result.val.sections) = 11
       /\ \A i \in 1..11 : result.val.sections[i]["id"] = i

\* C2 as claimed: the effective section takes every key of the override
\* other than name_override from the override, and every base field whose
\* key is not in the override keeps its base value.
C2_OverlayAsClaimed ==
    EffectiveSectionBuilt =>
        LET O == call.overrides.d
            base == BaseOf(call.section_id.n)
            eff == result.val
        IN  /\ \A k \in (DOMAIN O) \ {"name_override"} : k \in DOMAIN eff /\ eff[k] = O[k]
            /\ \A k \in (DOMAIN base) \ (DOMAIN O) : k \in DOMAIN eff /\ eff[k] = base[k]

\* C2 as amended: the effective section has the keys of the base and of the
\* override other than name_override; every key of the override other than
\* name_override has the override's value (a list replaces the base list);
\* and every base field whose key is not in the override keeps its base
\* value, except name when the override supplies name_override.
C2_Overlay ==
    EffectiveSectionBuilt =>
        LET O == call.overrides.d
            base == BaseOf(call.section_id.n)
            eff == result.val
        IN  /\ DOMAIN eff = (DOMAIN base) \cup ((DOMAIN O) \ {"name_override"})
            /\ \A k \in (DOMAIN O) \ {"name_override"} : eff[k] = O[k]
            /\ \A k \in (DOMAIN base) \ (DOMAIN O) :
                   (k = "name" /\ "name_override" \in DOMAIN O) \/ eff[k] = base[k]

\* A base list of six elements is replaced by the override's one element,
\* and a key the base does not have is added.
C2_Witness ==
    /\ EffectiveSectionBuilt
    /\ call.section_id = I(1)
    /\ call.overrides = D([required_elements |-> <<"x">>, peer_groups |-> <<"fabless">>])
    /\ Len(BaseOf(1)["required_elements"]) = 6
    /\ result.val["required_elements"] = <<"x">>
    /\ result.val["peer_groups"] = <<"fabless">>

CallReceivedConfig ==
    call.op \in {"build_effective_framework", "validate_framework", "validate_section_content"}

ConfigPassed ==
    IF call.op = "build_effective_framework" THEN call.sector_config ELSE call.framework

\* C3: after any sequence of get_base_section, build_effective_section,
\* build_effective_framework, validate_framework and validate_section_content
\* calls the base catalog equals its initial value, and the sector config
\* passed to a call is left as it was passed.
C3_CatalogAndConfigUnchanged ==
    /\ BASE_SECTIONS = BaseCatalog
    /\ CallReceivedConfig => sector_config = ConfigPassed

\* An override has been merged into a section that differs from the base one.
C3_Witness ==
    /\ EffectiveSectionBuilt
    /\ result.val # BaseOf(call.section_id.n)
    /\ BASE_SECTIONS = BaseCatalog

\* The config with the key of its e-th override entry replaced by the
\* string form of that key.
WithStringKey(config, e) ==
    [config EXCEPT !["section_overrides"][e].k = StrOf(@)]

HasKey(overrides, key) == \E i \in 1..Len(overrides) : overrides[i].k = key

SameSections(r1, r2) ==
    /\ r1.exc = r2.exc
    /\ r1.exc = "none" => r1.val.sections = r2.val.sections

\* C4: for every section id k in 1..11 and every override O (an override
\* struct, the empty one included), a config that maps the string form of k
\* to O yields the same effective section list as the config that maps the
\* integer k to O.
C4_StringKeyEquivalent ==
    (call.op = "build_effective_framework" /\ "section_overrides" \in DOMAIN call.sector_config)
    => LET overrides == call.sector_config["section_overrides"] IN
       \A e \in 1..Len(overrides) :
           (/\ ValidId(overrides[e].k)
            /\ overrides[e].v.t = "dict"
            /\ ~HasKey(overrides, StrOf(overrides[e].k)))
           => SameSections(build_effective_framework(BASE_SECTIONS,
                                                     WithStringKey(call.sector_config, e)),
                           result)

\* Section 3 is renamed by an override stored under the integer key 3.
C4_Witness ==
    /\ call.op = "build_effective_framework"
    /\ "section_overrides" \in DOMAIN call.sector_config
    /\ call.sector_config["section_overrides"]
          = <<Entry(I(3), D([name_override |-> "Custom Name"]))>>
    /\ result.exc = "none"
    /\ result.val.sections[3]["name"] = "Custom Name"

\* C5: build_effective_section raises ValueError exactly when section_id is
\* not one of 1..11, whatever the override, and then returns no section;
\* get_base_section returns None for exactly the same ids.
C5_InvalidSectionId ==
    /\ call.op = "build_effective_section" =>
          /\ result.exc = "ValueError" <=> ~ValidId(call.section_id)
          /\ result.exc = "ValueError" => result.val = None
    /\ call.op = "get_base_section" =>
          (result.val = None <=> ~ValidId(call.section_id))

\* Section id 12 with an override: ValueError.
C5_Witness ==
    /\ call.op = "build_effective_section"
    /\ call.section_id = I(12)
    /\ call.overrides.t = "dict"
    /\ result.exc = "ValueError"

\* C6 as claimed: for every valid id and every override that supplies
\* name_override, whatever other keys it carries, the effective name is
\* name_override; with no override it is the base name.
C6_NameOverrideAsClaimed ==
    /\ (EffectiveSectionBuilt /\ "name_override" \in DOMAIN call.overrides.d)
       => result.val["name"] = call.overrides.d["name_override"]
    /\ (call.op = "build_effective_section" /\ ValidId(call.section_id)
        /\ call.overrides = None)
       => (result.exc = "none" /\ result.val["name"] = BaseOf(call.section_id.n)["name"])

\* C6 as amended: for every valid id and every override that supplies
\* name_override and no name key, the effective name is name_override; when
\* the override also carries a name key the effective name is that name;
\* with no override it is the base name.
C6_NameOverride ==
    /\ (EffectiveSectionBuilt /\ "name_override" \in DOMAIN call.overrides.d)
       => result.val["name"] =
             IF "name" \in DOMAIN call.overrides.d
             THEN call.overrides.d["name"]
             ELSE call.overrides.d["name_override"]
    /\ (call.op = "build_effective_section" /\ ValidId(call.section_id)
        /\ call.overrides = None)
       => (result.exc = "none" /\ result.val["name"] = BaseOf(call.section_id.n)["name"])

\* Section 3 built with a name_override and another key.
C6_Witness ==
    /\ EffectiveSectionBuilt
    /\ call.section_id = I(3)
    /\ call.overrides = D([name_override |-> "Custom Name", peer_groups |-> <<"fabless">>])
    /\ result.val["name"] = "Custom Name"
    /\ BaseOf(3)["name"] = "Strategic Positioning"

(***************************************************************************)
(* Properties of the framework validator                                   *)
(***************************************************************************)
\* The document has the types of the data model: string fields, override
\* structs, numeric word_count bounds.
WellTyped(framework) ==
    /\ \A f \in {"sector_id", "display_name"} \cap DOMAIN framework : framework[f].t = "str"
    /\ OverridesAreStructs(framework)
    /\ LET overrides == Get(framework, "section_overrides", <<>>) IN
       \A e \in 1..Len(overrides) :
           "word_count" \in DOMAIN overrides[e].v.d =>
               \A b \in DOMAIN overrides[e].v.d["word_count"] :
                   overrides[e].v.d["word_count"][b].t = "int"

FieldPresent(framework, f) == f \in DOMAIN framework /\ Len(framework[f].s) > 0

OnlyAlnumAndUnderscore(s) == \A i \in 1..Len(s) : s[i] \in (Digits \cup Letters \cup {"_"})

SectorIdWellFormed(framework) ==
    FieldPresent(framework, "sector_id") => OnlyAlnumAndUnderscore(framework["sector_id"].s)

KeyResolves(key) ==
    \/ key.t = "int" /\ key.n \in 1..11
    \/ key.t = "str" /\ isdigit(key.s) /\ int(key.s) \in 1..11

MinWithinMax(override) ==
    "word_count" \in DOMAIN override.d =>
        LET wc == override.d["word_count"] IN
        ~("min" \in DOMAIN wc /\ "max" \in DOMAIN wc /\ wc["min"].n > wc["max"].n)

HasMessage(errors, msg) == \E i \in 1..Len(errors) : errors[i] = msg

\* C7: validate_framework returns a message for a rule exactly when that
\* rule is violated, independently of the other rules, and so returns the
\* empty list iff all hold: sector_id and display_name present and non-empty;
\* sector_id only alphanumeric characters and underscores; every override key
\* resolves to an id in 1..11; every supplied word_count has min <= max.
C7_MessageIffRuleViolated ==
    (call.op = "validate_framework" /\ WellTyped(call.framework))
    => LET fw == call.framework
           overrides == Get(fw, "section_overrides", <<>>)
           errors == result.val
       IN  /\ result.exc = "none"
           /\ \A f \in {"sector_id", "display_name"} :
                  HasMessage(errors, MissingField(f)) <=> ~FieldPresent(fw, f)
           /\ (\E i \in 1..Len(errors) : errors[i].rule = "sector_id_format")
                  <=> ~SectorIdWellFormed(fw)
           /\ \A e \in 1..Len(overrides) :
                  /\ HasMessage(errors, InvalidSectionKey(overrides[e].k))
                         <=> ~KeyResolves(overrides[e].k)
                  /\ HasMessage(errors, MinExceedsMax(overrides[e].k))
                         <=> ~MinWithinMax(overrides[e].v)
           /\ Len(errors) = 0 <=>
                  /\ FieldPresent(fw, "sector_id")
                  /\ FieldPresent(fw, "display_name")
                  /\ SectorIdWellFormed(fw)
                  /\ \A e \in 1..Len(overrides) :
                         KeyResolves(overrides[e].k) /\ MinWithinMax(overrides[e].v)

\* C8: validate_framework never raises: for every framework document it
\* returns a list of messages.
C8_NeverRaises ==
    call.op = "validate_framework" => result.exc = "none"

(***************************************************************************)
(* Report text: regular expressions and string searches of the QA engine   *)
(***************************************************************************)
HYPE_WORDS ==
    << <<"m", "a", "s", "s", "i", "v", "e">>,
       <<"i", "n", "c", "r", "e", "d", "i", "b", "l", "e">>,
       <<"g", "a", "m", "e", "-", "c", "h", "a", "n", "g", "i", "n", "g">>,
       <<"r", "e", "v", "o", "l", "u", "t", "i", "o", "n", "a", "r", "y">>,
       <<"u", "n", "p", "r", "e", "c", "e", "d", "e", "n", "t", "e", "d">>,
       <<"e", "x", "p", "l", "o", "s", "i", "v", "e">>,
       <<"s", "k", "y", "r", "o", "c", "k", "e", "t">>,
       <<"m", "o", "o", "n", "s", "h", "o", "t">>,
       <<"d", "i", "s", "r", "u", "p", "t", "i", "v", "e">>,
       <<"p", "h", "e", "n", "o", "m", "e", "n", "a", "l">>,
       <<"e", "x", "t", "r", "a", "o", "r", "d", "i", "n", "a", "r", "y">>,
       <<"j", "a", "w", "-", "d", "r", "o", "p", "p", "i", "n", "g">> >>

\* The word of each pattern r"\bword\b"
FIRST_PERSON_PATTERNS ==
    << <<"I">>, <<"w", "e">>, <<"o", "u", "r">>, <<"m", "y">>, <<"u", "s">> >>

\* sep.join(parts)
RECURSIVE Join(_, _)
Join(parts, sep) ==
    IF Len(parts) = 0 THEN <<>>
    ELSE IF Len(parts) = 1 THEN parts[1]
    ELSE parts[1] \o sep \o Join(Tail(parts), sep)

\* text[i], or "" past the end of the text
CharAt(text, i) == IF i >= 1 /\ i <= Len(text) THEN text[i] ELSE ""

\* The length of the longest run of characters of class C that starts at i
RECURSIVE RunOf(_, _, _)
RunOf(text, i, C) ==
    IF CharAt(text, i) \in C THEN 1 + RunOf(text, i + 1, C) ELSE 0

\* The positions at which a line of text starts
LineStarts(text) ==
    {1} \cup {j + 1 : j \in {k \in 1..Len(text) : text[k] = "\n"}}

\* The position of the "\n" that ends the line starting at i (Len + 1 if none)
LineEnd(text, i) ==
    LET ends == {k \in i..Len(text) : text[k] = "\n"} \cup {Len(text) + 1}
    IN  CHOOSE e \in ends : \A x \in ends : e <= x

\* r"^\|.+\|$" matches the line text[i .. e-1]
IsTableRow(text, i, e) ==
    e - i >= 3 /\ text[i] = "|" /\ text[e - 1] = "|"

\* len(re.findall(r"^\|.+\|$", text, re.MULTILINE)): a line holds at most one
\* match
CountTableRows(text) ==
    Cardinality({i \in LineStarts(text) :
                    /\ CharAt(text, i) = "|"
                    /\ IsTableRow(text, i, LineEnd(text, i))})

\* bool(re.search(r"^\|.+\|$", text, re.MULTILINE))
HasTableRow(text) == CountTableRows(text) > 0

\* r"\[(\d+)\]" matches at i
IsMarker(text, i) ==
    /\ text[i] = "["
    /\ RunOf(text, i + 1, Digits) > 0
    /\ CharAt(text, i + 1 + RunOf(text, i + 1, Digits)) = "]"

\* {int(m.group(1)) for m in re.finditer(r"\[(\d+)\]", text)}: two matches
\* never overlap, so every position the pattern matches at is a match
CitedIds(text) ==
    {int(SubSeq(text, i + 1, i + RunOf(text, i + 1, Digits))) :
        i \in {j \in 1..Len(text) : IsMarker(text, j)}}

\* The length of the match of r"\$[\d,.]+[BMK]?" at i (0 if none)
DollarMatch(text, i) ==
    IF CharAt(text, i) # "$" THEN 0
    ELSE
        LET n == RunOf(text, i + 1, Digits \cup {",", "."})
        IN  IF n = 0 THEN 0
            ELSE 1 + n + (IF CharAt(text, i + 1 + n) \in {"B", "M", "K"} THEN 1 ELSE 0)

\* The length of the match of r"\d+\.?\d*%" at i (0 if none)
PercentMatch(text, i) ==
    LET n == RunOf(text, i, Digits)
    IN  IF n = 0 THEN 0
        ELSE IF CharAt(text, i + n) = "%" THEN n + 1
        ELSE IF CharAt(text, i + n) = "."
        THEN LET m == RunOf(text, i + n + 1, Digits)
             IN  IF CharAt(text, i + n + 1 + m) = "%" THEN n + m + 2 ELSE 0
        ELSE 0

\* The number of repetitions of r",\d{3}" matched greedily from i
RECURSIVE ThousandsGroups(_, _)
ThousandsGroups(text, i) ==
    IF CharAt(text, i) = "," /\ RunOf(text, i + 1, Digits) >= 3
    THEN 1 + ThousandsGroups(text, i + 4)
    ELSE 0

\* The length of the match of r"\d{1,3}(?:,\d{3})+" at i (0 if none)
ThousandsMatch(text, i) ==
    LET n == RunOf(text, i, Digits)
    IN  IF n = 0 \/ n > 3 THEN 0
        ELSE LET k == ThousandsGroups(text, i + n)
             IN  IF k = 0 THEN 0 ELSE n + 4 * k

\* The length of the match at i of the alternation, first alternative first
MetricMatch(text, i) ==
    IF DollarMatch(text, i) > 0 THEN DollarMatch(text, i)
    ELSE IF PercentMatch(text, i) > 0 THEN PercentMatch(text, i)
    ELSE ThousandsMatch(text, i)

\* len(re.findall(r"\$[\d,.]+[BMK]?|\d+\.?\d*%|\d{1,3}(?:,\d{3})+", text)),
\* scanning from i: the leftmost match, then on from its end
RECURSIVE CountMetrics(_, _)
CountMetrics(text, i) ==
    LET starts == {j \in i..Len(text) : MetricMatch(text, j) > 0}
    IN  IF starts = {} THEN 0
        ELSE LET j == CHOOSE x \in starts : \A y \in starts : x <= y
             IN  1 + CountMetrics(text, j + MetricMatch(text, j))

\* str.lower(), on ASCII text
lower(text) ==
    [i \in 1..Len(text) |->
        IF text[i] \in Range(UpperSeq)
        THEN LowerSeq[CHOOSE k \in 1..Len(UpperSeq) : UpperSeq[k] = text[i]]
        ELSE text[i]]

\* text[i:].startswith(word)
MatchesAt(text, i, word) ==
    /\ i + Len(word) - 1 <= Len(text)
    /\ \A j \in 1..Len(word) : text[i + j - 1] = word[j]

\* word in text
Find_at_start(text, word) == MatchesAt(text, 1, word)

Find(text, word) == \E i \in 1..Len(text) : MatchesAt(text, i, word)

\* The characters of \w, on ASCII text
WordChars == Digits \cup Letters \cup {"_"}

\* bool(re.search(r"\bword\b", text, flags)), flags being re.IGNORECASE or 0
SearchWord_anywhere(text, word, ignorecase) ==
    LET t == IF ignorecase THEN lower(text) ELSE text
    IN  \E i \in 1..Len(text) : MatchesAt(t, i, word)

SearchWord(text, word, ignorecase) ==
    LET t == IF ignorecase THEN lower(text) ELSE text
    IN  \E i \in 1..Len(text) :
            /\ MatchesAt(t, i, word)
            /\ CharAt(text, i - 1) \notin WordChars
            /\ CharAt(text, i + Len(word)) \notin WordChars

\* sorted(ids) for a set of integers
RECURSIVE sorted_descending(_)
sorted_descending(ids) ==
    IF ids = {} THEN <<>>
    ELSE LET m == CHOOSE x \in ids : \A y \in ids : y <= x
         IN  <<m>> \o sorted_descending(ids \ {m})

RECURSIVE sorted(_)
sorted(ids) ==
    IF ids = {} THEN <<>>
    ELSE LET m == CHOOSE x \in ids : \A y \in ids : x <= y
         IN  <<m>> \o sorted(ids \ {m})

(***************************************************************************)
(* Citation validation                                                     *)
(***************************************************************************)
\* max(ids) for a non-empty set of integers
Max_smallest(ids) == CHOOSE x \in ids : \A y \in ids : x <= y

Max(ids) == CHOOSE x \in ids : \A y \in ids : y <= x

validate_citations(content, citations) ==
    LET cited_ids     == CitedIds(content)
        reference_ids == {citations[i].id.n :
                             i \in {j \in 1..Len(citations) : citations[j].id # None}}
        orphaned      == cited_ids \ reference_ids
        uncited       == reference_ids \ cited_ids
        sequential    == IF reference_ids # {}
                         THEN reference_ids = 1..Max(reference_ids)
                         ELSE TRUE
    IN  [orphaned        |-> sorted(orphaned),
         uncited         |-> sorted(uncited),
         sequential      |-> sequential,
         total_citations |-> Cardinality(reference_ids),
         total_cited     |-> Cardinality(cited_ids)]

(***************************************************************************)
(* QA rule engine                                                          *)
(*                                                                         *)
(* A category's checks are the sequence of its entries in insertion order; *)
(* an entry carries the check's name with its pass, message and level. A   *)
(* message is the f-string's fixed text with the numbers and the words it  *)
(* interpolates.                                                           *)
(***************************************************************************)
Msg(text, nums, words) == [text |-> text, nums |-> nums, words |-> words]

Check(name, pass, message, level) ==
    [name |-> name, pass |-> pass, message |-> message, level |-> level]

CheckWithValue(name, pass, message, level, value) ==
    [name |-> name, pass |-> pass, message |-> message, level |-> level,
     value |-> value]

\* [f(s) for s in sections]
Contents(sections) == [i \in 1..Len(sections) |-> sections[i].content]

IsGenerated(s) == s.status = "generated"

\* {s.get("section_id") for s in sections}
SectionIds(sections) == {sections[i].section_id : i \in 1..Len(sections)}

\* The ids of the sections whose status is not "generated", in list order
RECURSIVE NotGenerated(_, _)
NotGenerated(sections, i) ==
    IF i > Len(sections) THEN <<>>
    ELSE (IF IsGenerated(sections[i]) THEN <<>> ELSE <<sections[i].section_id>>)
         \o NotGenerated(sections, i + 1)

_check_structure(sections, report) ==
    LET section_ids    == SectionIds(sections)
        expected       == 1..11
        missing        == expected \ section_ids
        word_issues    == NotGenerated(sections, 1)
        total          == report.word_count
        full_content   == Join(Contents(sections), <<"\n">>)
        table_count    == CountTableRows(full_content)
        table_sections == table_count \div 2
    IN  << Check("all_11_sections_present",
                 Cardinality(missing) = 0,
                 IF missing # {} THEN Msg("Missing sections", sorted(missing), <<>>)
                                 ELSE Msg("All 11 sections present", <<>>, <<>>),
                 "error"),
           Check("section_generation_status",
                 Len(word_issues) = 0,
                 IF Len(word_issues) > 0
                 THEN Msg("Section not generated", word_issues, <<>>)
                 ELSE Msg("All sections generated", <<>>, <<>>),
                 IF Len(word_issues) > 0 THEN "error" ELSE "info"),
           CheckWithValue("total_word_count",
                 8000 <= total /\ total <= 10000,
                 Msg("Total words", <<total>>, <<>>),
                 "warning", total),
           CheckWithValue("tables_present",
                 2 <= table_sections /\ table_sections <= 10,
                 Msg("tables found", <<table_sections>>, <<>>),
                 "warning", table_sections) >>

_check_citations(full_content, citations) ==
    LET validation == validate_citations(full_content, citations)
    IN  << CheckWithValue("total_count",
                 25 <= validation.total_citations /\ validation.total_citations <= 40,
                 Msg("citations", <<validation.total_citations>>, <<>>),
                 "warning", validation.total_citations),
           Check("no_orphaned",
                 Len(validation.orphaned) = 0,
                 IF Len(validation.orphaned) > 0
                 THEN Msg("Orphaned citation IDs in text", validation.orphaned, <<>>)
                 ELSE Msg("No orphaned citations", <<>>, <<>>),
                 "error"),
           Check("no_uncited",
                 Len(validation.uncited) = 0,
                 IF Len(validation.uncited) > 0
                 THEN Msg("Uncited references", validation.uncited, <<>>)
                 ELSE Msg("All references cited", <<>>, <<>>),
                 "warning"),
           Check("sequential_numbering",
                 validation.sequential,
                 IF validation.sequential
                 THEN Msg("Sequential", <<>>, <<>>)
                 ELSE Msg("Non-sequential numbering", <<>>, <<>>),
                 "warning") >>

\* next((s for s in sections if s.get("section_id") == n), None): its position,
\* 0 for None
SectionWithId(sections, n) ==
    IF \E i \in 1..Len(sections) : sections[i].section_id = n
    THEN CHOOSE i \in 1..Len(sections) :
             /\ sections[i].section_id = n
             /\ \A j \in 1..(i - 1) : sections[j].section_id # n
    ELSE 0

\* The table check of section n, present only when the report has that section
TableCheck(sections, n, name, present, absent) ==
    LET i == SectionWithId(sections, n)
    IN  IF i = 0 THEN <<>>
        ELSE LET has_table == HasTableRow(sections[i].content)
             IN  << Check(name, has_table,
                          IF has_table THEN Msg(present, <<>>, <<>>)
                                       ELSE Msg(absent, <<>>, <<>>),
                          "warning") >>

RiskCheck(sections) ==
    LET i == SectionWithId(sections, 10)
    IN  IF i = 0 THEN <<>>
        ELSE LET content == lower(sections[i].content)
                 has_risk_framework ==
                     \/ Find(content, <<"p", "r", "o", "b", "a", "b", "i", "l", "i", "t", "y">>)
                     \/ Find(content, <<"l", "i", "k", "e", "l", "i", "h", "o", "o", "d">>)
                     \/ Find(content, <<"i", "m", "p", "a", "c", "t">>)
             IN  << Check("risk_probability_impact", has_risk_framework,
                          IF has_risk_framework
                          THEN Msg("Risk framework present", <<>>, <<>>)
                          ELSE Msg("Missing probability/impact assessment", <<>>, <<>>),
                          "warning") >>

_check_content(full_content, sections) ==
    LET numbers == CountMetrics(full_content, 1)
    IN  << CheckWithValue("specific_metrics_present",
                 numbers >= 10,
                 Msg("specific metrics found", <<numbers>>, <<>>),
                 "warning", numbers) >>
        \o TableCheck(sections, 9, "peer_comparison_table",
                      "Peer table present", "Missing peer comparison table")
        \o TableCheck(sections, 7, "financial_table",
                      "Financial table present", "Missing financial table")
        \o RiskCheck(sections)

_check_tone(full_content) ==
    LET content_lower == lower(full_content)
        found_hype    == SelectSeq(HYPE_WORDS, LAMBDA word : Find(content_lower, word))
        found_first_person ==
            \E k \in 1..Len(FIRST_PERSON_PATTERNS) :
                SearchWord(full_content, FIRST_PERSON_PATTERNS[k],
                           FIRST_PERSON_PATTERNS[k] # <<"I">>)
    IN  << Check("no_hype_language",
                 Len(found_hype) = 0,
                 IF Len(found_hype) > 0 THEN Msg("Hype words found", <<>>, found_hype)
                                        ELSE Msg("No hype language detected", <<>>, <<>>),
                 "warning"),
           Check("no_first_person",
                 ~found_first_person,
                 IF found_first_person
                 THEN Msg("First person language detected", <<>>, <<>>)
                 ELSE Msg("No first person language", <<>>, <<>>),
                 "warning") >>

Categories == <<"structure", "citations", "content", "tone">>

\* f"[{category}.{check_name}] {message}"
Format(category, check_name, message) ==
    [category |-> category, check_name |-> check_name, message |-> message]

\* What a failing check does to the results
RecordFailure_errors_only(results, level, msg) ==
    IF level = "error"
    THEN [results EXCEPT !.overall_pass = FALSE, !.errors = Append(@, msg)]
    ELSE [results EXCEPT !.warnings = Append(@, msg)]

RecordFailure(results, level, msg) ==
    IF level = "error"
    THEN [results EXCEPT !.overall_pass = FALSE, !.errors = Append(@, msg)]
    ELSE [results EXCEPT !.overall_pass = FALSE, !.warnings = Append(@, msg)]

\* for check_name, check_result in checks.items(): ...
RECURSIVE AggregateChecks(_, _, _, _)
AggregateChecks(results, category, checks, i) ==
    IF i > Len(checks) THEN results
    ELSE LET check_result == checks[i]
         IN  IF check_result.pass
             THEN AggregateChecks(results, category, checks, i + 1)
             ELSE AggregateChecks(
                      RecordFailure(results, check_result.level,
                                    Format(category, check_result.name,
                                           check_result.message)),
                      category, checks, i + 1)

\* for category in ("structure", "citations", "content", "tone"): ...
RECURSIVE AggregateCategories(_, _)
AggregateCategories(results, c) ==
    IF c > Len(Categories) THEN results
    ELSE AggregateCategories(
             AggregateChecks(results, Categories[c], results[Categories[c]], 1),
             c + 1)

\* The aggregation loop, run on the results dict as built
Aggregate(results) ==
    CHOOSE aggregated \in {AggregateCategories(built, 1) : built \in {results}} : TRUE

run_qa_checks(report) ==
    LET sections     == report.sections
        citations    == report.citations
        full_content == Join(Contents(SelectSeq(sections, IsGenerated)),
                             <<"\n", "\n">>)
        results      == [structure    |-> _check_structure(sections, report),
                         citations    |-> _check_citations(full_content, citations),
                         content      |-> _check_content(full_content, sections),
                         tone         |-> _check_tone(full_content),
                         overall_pass |-> TRUE,
                         warnings     |-> <<>>,
                         errors       |-> <<>>]
    IN  Aggregate(results)

(***************************************************************************)
(* Reports handed to the QA engine                                         *)
(***************************************************************************)
MaxSections == 12
MaxCitations == 41

\* "[lo] [lo+1] ... [hi]"
RECURSIVE Markers(_, _)
Markers(lo, hi) ==
    IF lo > hi THEN <<>>
    ELSE <<"[">> \o str(lo) \o <<"]", " ">> \o Markers(lo + 1, hi)

Text_metrics ==
    <<"$", "1", ".", "5", "B", " ", "1", "0", "%", " ", "1", ",", "0", "0", "0", " ", "2", ".", "5", "%", " ", "$", "3", "M", " ", "4", "%", " ", "1", "2", ",", "3", "4", "5", ",", "6", "7", "8", " ", "6", "%", " ", "7", "%", " ", "8", "0", "%", " ">>
Text_few_metrics ==
    <<"$", "1", ".", "5", "B", " ", "1", "0", "%", " ", "1", ",", "0", "0", "0", " ", "1", "2", "3", "4", ",", "5", " ", "2", ".", " ", "3", " ", "%", " ">>
Text_table ==
    <<"|", "a", "|", "b", "|", "\n", "|", "-", "|", "-", "|">>
Text_long_table ==
    Join([i \in 1..11 |-> Text_table], <<"\n">>)
Text_risk ==
    <<"I", "m", "p", "a", "c", "t", ":", " ", "h", "i", "g", "h">>
Text_plain ==
    <<"F", "o", "c", "u", "s", " ", "o", "n", " ", "c", "o", "s", "t", "s", ".">>
Text_hype ==
    <<"A", " ", "M", "a", "s", "s", "i", "v", "e", ",", " ", "j", "a", "w", "-", "d", "r", "o", "p", "p", "i", "n", "g", " ", "w", "i", "n", ".">>
Text_we ==
    <<"T", "h", "e", "n", " ", "W", "e", " ", "w", "a", "i", "t", ".">>
Text_I ==
    <<"S", "o", " ", "I", " ", "w", "a", "i", "t", ".">>
Text_orphan ==
    <<"S", "e", "e", " ", "[", "9", "9", "]", ".">>

\* The ways a report's text departs from a report that passes every check
TextVariants ==
    {"sound", "hype", "we", "I", "orphan", "few_metrics", "no_tables",
     "many_tables", "no_risk", "unterminated_row"}

\* The content of section n under a variant, citing references 1..cited
SectionText(n, variant, cited) ==
    CASE n = 1 ->
           Markers(1, cited)
           \o (IF variant = "few_metrics" THEN Text_few_metrics ELSE Text_metrics)
           \o (CASE variant = "hype"   -> Text_hype
                 [] variant = "we"     -> Text_we
                 [] variant = "I"      -> Text_I
                 [] variant = "orphan" -> Text_orphan
                 [] OTHER              -> Text_plain)
      [] n = 7 ->
           CASE variant = "no_tables"        -> Text_plain
             [] variant = "many_tables"      -> Text_long_table
             [] variant = "unterminated_row" -> Text_table \o <<" ">>
             [] OTHER                        -> Text_table
      [] n = 9 ->
           IF variant = "no_tables" THEN Text_plain ELSE Text_table
      [] n = 10 ->
           IF variant = "no_risk" THEN Text_plain ELSE Text_risk
      [] OTHER -> Text_plain

\* The orders and selections of section ids a report may carry
Layouts ==
    {[i \in 1..k |-> i] : k \in 0..MaxSections}
    \cup {[i \in 1..10 |-> IF i < d THEN i ELSE i + 1] : d \in 1..11}
    \cup { [i \in 1..11 |-> 12 - i],
           [i \in 1..12 |-> i - 1],
           [i \in 1..12 |-> IF i = 12 THEN 5 ELSE i],
           [i \in 1..11 |-> IF i = 11 THEN 12 ELSE i] }

SomeLayouts ==
    { [i \in 1..11 |-> i], [i \in 1..9 |-> i], [i \in 1..6 |-> i] }

\* The section result of section n; failed is the set of ids of the sections
\* whose generation failed
SectionResult(n, variant, cited, failed) ==
    IF n \in failed
    THEN [section_id |-> n, content |-> <<>>, word_count |-> 0, status |-> "error"]
    ELSE LET content == SectionText(n, variant, cited)
         IN  [section_id |-> n, content |-> content,
              word_count |-> WordCount(content), status |-> "generated"]

\* The reference list: ids first..last, the entry at position nulled carrying
\* no id (0 for none)
CitationList(first, last, nulled) ==
    [i \in 1..(last - first + 1) |->
        [id |-> IF i = nulled THEN None ELSE I(first + i - 1)]]

CitationLists ==
    {CitationList(1, n, 0) : n \in {0, 24, 25, 40, MaxCitations}}
    \cup {CitationList(2, 26, 0), CitationList(1, 25, 25), CitationList(1, 26, 3)}

TotalWordCounts == {0, 7999, 8000, 9000, 10000, 10001}

Report(layout, variant, cited, failed, citations, total) ==
    [sections   |-> [i \in 1..Len(layout) |->
                        SectionResult(layout[i], variant, cited, failed)],
     citations  |-> citations,
     word_count |-> total]

Reports ==
    {Report(layout, "sound", 25, {}, CitationList(1, 25, 0), 9000) :
        layout \in Layouts}
    \cup {Report([i \in 1..11 |-> i], variant, 25, failed, citations, 9000) :
             variant \in TextVariants, failed \in {{}, {1}, {7}},
             citations \in CitationLists}
    \cup {Report(layout, variant, 25, {}, CitationList(1, 25, 0), total) :
             layout \in SomeLayouts, variant \in TextVariants,
             total \in TotalWordCounts}
    \cup {Report([i \in 1..11 |-> i], "sound", cited, {}, CitationList(1, n, 0), 9000) :
             cited \in {0, 24, 25, 40}, n \in {25, 40}}

(***************************************************************************)
(* The QA engine as an operation                                           *)
(***************************************************************************)
RunQAChecks ==
    /\ Idle
    /\ \E report \in Reports :
           /\ call' = [op |-> "run_qa_checks", report |-> report]
           /\ result' = [exc |-> "none", val |-> run_qa_checks(report)]
    /\ UNCHANGED <<BASE_SECTIONS, sector_config, store, companies, reports>>

NextQA ==
    \/ RunQAChecks
    \/ Finish

SpecQA == Init /\ [][NextQA]_vars

(***************************************************************************)
(* Properties of the QA engine                                             *)
(***************************************************************************)
QAReturned == call.op = "run_qa_checks" /\ result.exc = "none"

\* The checks of a category in a QA result
ChecksOf(r, category) == r[category]

\* The number of entries of a list equal to msg
Occurrences(list, msg) == Cardinality({i \in 1..Len(list) : list[i] = msg})

\* The number of failing checks of a QA result
Failing(r) ==
    {<<c, k>> \in (1..Len(Categories)) \X (1..4) :
        k <= Len(ChecksOf(r, Categories[c])) /\ ~ChecksOf(r, Categories[c])[k].pass}

\* C9: run_qa_checks returns overall_pass = false iff at least one check of
\* the structure, citations, content or tone category fails, whatever its
\* level; every failing check contributes exactly one "[category.check_name]
\* message" string, to errors when its level is error and to warnings
\* otherwise; passing checks contribute nothing; so overall_pass is true iff
\* errors and warnings are both empty.
C9_Aggregation ==
    QAReturned =>
        LET r == result.val
        IN  /\ r.overall_pass = FALSE <=> Failing(r) # {}
            /\ \A c \in 1..Len(Categories) :
                   \A k \in 1..Len(ChecksOf(r, Categories[c])) :
                       LET check == ChecksOf(r, Categories[c])[k]
                           msg   == Format(Categories[c], check.name, check.message)
                       IN  /\ Occurrences(r.errors, msg) =
                                  (IF ~check.pass /\ check.level = "error"
                                   THEN 1 ELSE 0)
                           /\ Occurrences(r.warnings, msg) =
                                  (IF ~check.pass /\ check.level # "error"
                                   THEN 1 ELSE 0)
            /\ Len(r.errors) + Len(r.warnings) = Cardinality(Failing(r))
            /\ r.overall_pass = TRUE <=> (r.errors = <<>> /\ r.warnings = <<>>)

\* A report whose failing checks are all warnings, beside passing ones
C9_Witness ==
    /\ QAReturned
    /\ result.val.overall_pass = FALSE
    /\ result.val.errors = <<>>
    /\ Len(result.val.warnings) >= 2
    /\ \E k \in 1..Len(result.val.structure) : result.val.structure[k].pass

\* The all_11_sections_present entry of a QA result
AllSectionsCheck(r) ==
    r.structure[CHOOSE k \in 1..Len(r.structure) :
                    r.structure[k].name = "all_11_sections_present"]

\* C10: structure.all_11_sections_present passes iff the set of section_id
\* values of the report's sections equals {1..11} exactly (none missing, none
\* outside 1..11); when ids are missing the message lists exactly the missing
\* ids in ascending order; the check's level is error.
C10_AllSectionsIffExactSet ==
    QAReturned =>
        LET ids     == SectionIds(call.report.sections)
            check   == AllSectionsCheck(result.val)
            missing == (1..11) \ ids
        IN  /\ check.pass <=> ids = 1..11
            /\ missing # {} =>
                   /\ check.message.text = "Missing sections"
                   /\ Len(check.message.nums) = Cardinality(missing)
                   /\ \A i \in 1..Len(check.message.nums) :
                          /\ check.message.nums[i] \in missing
                          /\ \A j \in 1..(i - 1) :
                                 check.message.nums[j] < check.message.nums[i]
            /\ check.level = "error"

(***************************************************************************)
(* citations.py: assign_citation_ids                                       *)
(***************************************************************************)
\* citation["id"] = i
SetId_if_missing(citation, i) ==
    IF citation.id = None THEN [citation EXCEPT !.id = I(i)] ELSE citation

SetId(citation, i) == [citation EXCEPT !.id = I(i)]

\* for i, citation in enumerate(citations, start=1): citation["id"] = i
assign_citation_ids(citations) ==
    [i \in 1..Len(citations) |-> SetId(citations[i], i)]

(***************************************************************************)
(* Contents and citation lists handed to the citation functions            *)
(***************************************************************************)
MaxTokens == 2
MaxCitationRecords == 3

\* The pieces contents are made of: markers, a marker with a leading zero,
\* and the halves of a marker
Tokens ==
    { <<"[", "1", "]">>, <<"[", "2", "]">>, <<"[", "0", "3", "]">>,
      <<"[", "3">>, <<"]">> }

RECURSIVE TokenTexts(_)
TokenTexts(n) ==
    IF n = 0 THEN {<<>>}
    ELSE TokenTexts(n - 1)
         \cup {t \o token : t \in TokenTexts(n - 1), token \in Tokens}

CitedContents == TokenTexts(MaxTokens)

RECURSIVE ListsUpTo(_, _)
ListsUpTo(items, n) ==
    IF n = 0 THEN {<<>>}
    ELSE ListsUpTo(items, n - 1)
         \cup {Append(l, item) : l \in ListsUpTo(items, n - 1), item \in items}

ReferenceLists ==
    ListsUpTo({[id |-> v] : v \in {None, I(1), I(2), I(3)}}, MaxCitationRecords)

CitationRecords ==
    {[id |-> v, title |-> t] : v \in {None, I(1), I(2), I(7)}, t \in {"A", "B"}}

CitationRecordLists == ListsUpTo(CitationRecords, MaxCitationRecords)

(***************************************************************************)
(* The citation functions as operations                                    *)
(***************************************************************************)
ValidateCitations ==
    /\ Idle
    /\ \E content \in CitedContents, citations \in ReferenceLists :
           /\ call' = [op |-> "validate_citations", content |-> content,
                       citations |-> citations]
           /\ result' = [exc |-> "none",
                         val |-> validate_citations(content, citations)]
    /\ UNCHANGED <<BASE_SECTIONS, sector_config, store, companies, reports>>

CheckCitations ==
    /\ Idle
    /\ \E content \in CitedContents, citations \in ReferenceLists :
           /\ call' = [op |-> "_check_citations", content |-> content,
                       citations |-> citations]
           /\ result' = [exc |-> "none",
                         val |-> _check_citations(content, citations)]
    /\ UNCHANGED <<BASE_SECTIONS, sector_config, store, companies, reports>>

AssignCitationIds ==
    /\ Idle
    /\ \E citations \in CitationRecordLists :
           /\ call' = [op |-> "assign_citation_ids", citations |-> citations]
           /\ result' = [exc |-> "none", val |-> assign_citation_ids(citations)]
    /\ UNCHANGED <<BASE_SECTIONS, sector_config, store, companies, reports>>

NextCitations ==
    \/ ValidateCitations
    \/ CheckCitations
    \/ AssignCitationIds
    \/ Finish

SpecCitations == Init /\ [][NextCitations]_vars

(***************************************************************************)
(* Properties of the citation functions                                    *)
(***************************************************************************)
\* The ids n for which content holds a marker "[digits]" with int(digits) = n
MarkedIds(content) ==
    {int(SubSeq(content, p[1] + 1, p[2] - 1)) :
        p \in {q \in (1..Len(content)) \X (1..Len(content)) :
                  /\ q[2] > q[1] + 1
                  /\ content[q[1]] = "["
                  /\ content[q[2]] = "]"
                  /\ \A k \in (q[1] + 1)..(q[2] - 1) : content[k] \in Digits}}

\* The non-null ids of a citation list
NonNullIds(citations) ==
    {citations[i].id.n : i \in {j \in 1..Len(citations) : citations[j].id # None}}

Elements(list) == {list[i] : i \in 1..Len(list)}

StrictlyAscending(list) ==
    \A i \in 1..Len(list) : \A j \in 1..(i - 1) : list[j] < list[i]

CheckNamed(checks, name) ==
    checks[CHOOSE k \in 1..Len(checks) : checks[k].name = name]

\* C11: validate_citations returns orphaned = the ids cited in [N] markers
\* that are not ids of the citation list and uncited = the non-null citation
\* ids never cited, each ascending without duplicates; the two are disjoint;
\* QA's no_orphaned (level error) and no_uncited (level warning) pass iff the
\* respective list is empty.
C11_OrphanedAndUncited ==
    LET cited == MarkedIds(call.content)
        refs  == NonNullIds(call.citations)
    IN  /\ call.op = "validate_citations" =>
               /\ Elements(result.val.orphaned) = cited \ refs
               /\ Elements(result.val.uncited) = refs \ cited
               /\ StrictlyAscending(result.val.orphaned)
               /\ StrictlyAscending(result.val.uncited)
               /\ Elements(result.val.orphaned) \cap Elements(result.val.uncited) = {}
        /\ call.op = "_check_citations" =>
               /\ CheckNamed(result.val, "no_orphaned").pass <=> cited \ refs = {}
               /\ CheckNamed(result.val, "no_orphaned").level = "error"
               /\ CheckNamed(result.val, "no_uncited").pass <=> refs \ cited = {}
               /\ CheckNamed(result.val, "no_uncited").level = "warning"

\* Two ids cited but not listed, beside one listed but never cited
C11_Witness ==
    /\ call.op = "validate_citations"
    /\ Len(result.val.orphaned) = 2
    /\ Len(result.val.uncited) = 1

\* C12: validate_citations returns sequential = true iff the set of non-null
\* citation ids equals the contiguous range 1..max(ids), and true for an
\* empty set; it depends on the citation list only, never on the ids cited in
\* the content.
C12_Sequential ==
    call.op = "validate_citations" =>
        LET refs == NonNullIds(call.citations)
        IN  /\ result.val.sequential <=>
                   \/ refs = {}
                   \/ \E m \in refs : (\A x \in refs : x <= m) /\ refs = 1..m
            /\ result.val.sequential =
                   validate_citations(<<>>, call.citations).sequential

\* Ids {1, 3}, both cited in the content
C12_Witness ==
    /\ call.op = "validate_citations"
    /\ NonNullIds(call.citations) = {1, 3}
    /\ MarkedIds(call.content) = {1, 3}
    /\ ~result.val.sequential

\* The list of record positions p[1], p[2], ... of a list
Reordered(list, p) == [i \in 1..Len(list) |-> list[p[i]]]

\* C13: assign_citation_ids sets the id of the record at position i (from 1)
\* to i, whatever ids the records held, and changes no other field; applied
\* twice it gives the ids it gives applied once; applied to the list
\* reordered it numbers the records by their new positions.
C13_AssignIds ==
    call.op = "assign_citation_ids" =>
        LET before == call.citations
            after  == result.val
        IN  /\ Len(after) = Len(before)
            /\ \A i \in 1..Len(after) :
                   /\ after[i].id = I(i)
                   /\ after[i].title = before[i].title
                   /\ DOMAIN after[i] = DOMAIN before[i]
            /\ assign_citation_ids(after) = after
            /\ \A p \in Permutations(1..Len(before)) :
                   LET renumbered == assign_citation_ids(Reordered(before, p))
                   IN  \A i \in 1..Len(before) :
                           /\ renumbered[i].id = I(i)
                           /\ renumbered[i].title = before[p[i]].title

\* Three records holding ids 7, none and 1, renumbered 1, 2, 3
C13_Witness ==
    /\ call.op = "assign_citation_ids"
    /\ Len(call.citations) = 3
    /\ call.citations[1].id = I(7)
    /\ call.citations[2].id = None
    /\ call.citations[3].id = I(1)
    /\ result.val[1].id = I(1)
    /\ result.val[3].id = I(3)

(***************************************************************************)
(* writer.py: write_section and write_all_sections                         *)
(*                                                                         *)
(* The configuration file and the text-generation service are the          *)
(* environment: a run sees an api_key (empty when none is configured) and, *)
(* for each request it sends, one outcome of the service: a response with  *)
(* its text, an ImportError of the client package, or any other exception  *)
(* with its str().  The elements of a section's required_elements are      *)
(* tagged values, since override documents may carry any JSON value there. *)
(***************************************************************************)
\* build_section_prompt: elem.replace("_", " ") needs every required element
\* to be a str; the prompt itself is not inspected by the writer
build_section_prompt(section) ==
    IF \E k \in 1..Len(section.required_elements) :
           section.required_elements[k].t # "str"
    THEN [exc |-> "AttributeError", val |-> None]
    ELSE [exc |-> "none", val |-> [prompt_for |-> section.id]]

\* The section result of a failed generation
ErrorResult(section, error) ==
    [section_id |-> section.id, name |-> section.name, content |-> <<>>,
     word_count |-> 0, status |-> "error", error |-> error]

\* The section result of a generation that returned content
GeneratedResult(section, content) ==
    [section_id |-> section.id, name |-> section.name, content |-> content,
     word_count |-> WordCount(content), status |-> "generated", error |-> ""]

write_section(section, api_key, outcome) ==
    IF api_key = ""
    THEN [exc |-> "none",
          val |-> ErrorResult(section, "No API key configured")]
    ELSE LET prompt == build_section_prompt(section)
         IN  IF prompt.exc # "none" THEN [exc |-> prompt.exc, val |-> None]
             ELSE CASE outcome.kind = "response" ->
                         [exc |-> "none",
                          val |-> GeneratedResult(section, outcome.text)]
                    [] outcome.kind = "ImportError" ->
                         [exc |-> "none",
                          val |-> ErrorResult(section, "anthropic package not installed")]
                    [] OTHER ->
                         [exc |-> "none",
                          val |-> ErrorResult(section, outcome.message)]

\* for section in sections: results.append(write_section(...))
RECURSIVE WriteFrom(_, _, _, _, _)
WriteFrom(sections, api_key, outcomes, i, results) ==
    IF i > Len(sections) THEN [exc |-> "none", val |-> results]
    ELSE LET written == write_section(sections[i], api_key, outcomes[i])
         IN  IF written.exc # "none" THEN [exc |-> written.exc, val |-> None]
             ELSE WriteFrom(sections, api_key, outcomes, i + 1,
                            Append(results, written.val))

write_all_sections(effective_framework, api_key, outcomes) ==
    WriteFrom(effective_framework.sections, api_key, outcomes, 1, <<>>)

(***************************************************************************)
(* assembler.py: assemble_report                                           *)
(***************************************************************************)
\* sum(s.get("word_count", 0) for s in sections)
RECURSIVE total_words_generated_only(_)
total_words_generated_only(sections) ==
    IF Len(sections) = 0 THEN 0
    ELSE (IF Head(sections).status = "generated" THEN Head(sections).word_count ELSE 0)
         + total_words_generated_only(Tail(sections))

RECURSIVE total_words(_)
total_words(sections) ==
    IF Len(sections) = 0 THEN 0
    ELSE Head(sections).word_count + total_words(Tail(sections))

\* all(s.get("status") == "generated" for s in sections)
all_generated_first_only(sections) ==
    Len(sections) = 0 \/ sections[1].status = "generated"

all_generated(sections) ==
    \A i \in 1..Len(sections) : sections[i].status = "generated"

assemble_report_unnumbered(sections, framework, citations) ==
    [framework_id |-> framework.sector_id,
     status       |-> IF all_generated(sections) THEN "complete" ELSE "draft",
     sections     |-> sections,
     citations    |-> citations,
     qa_results   |-> None,
     word_count   |-> total_words(sections)]

\* The fields of the report that depend on the sections and the citations;
\* id, company_id and the dates come from the profile and the clock
assemble_report(sections, framework, citations) ==
    [framework_id |-> framework.sector_id,
     status       |-> IF all_generated(sections) THEN "complete" ELSE "draft",
     sections     |-> sections,
     citations    |-> IF Len(citations) > 0 THEN assign_citation_ids(citations)
                                            ELSE <<>>,
     qa_results   |-> None,
     word_count   |-> total_words(sections)]

(***************************************************************************)
(* Frameworks, service outcomes and section results handed to the          *)
(* generator                                                               *)
(***************************************************************************)
MaxWriterSections == 3

\* The ways the required_elements of a section may read
ElementLists ==
    { << S(<<"k", "p", "i">>) >>, << S(<<"k", "p", "i">>), I(1) >> }

WriterSections(n) ==
    {s \in [1..n -> [id : 1..MaxWriterSections, name : {"Section"},
                     required_elements : ElementLists]] :
        \A i \in 1..n : s[i].id = i}

WriterFrameworks ==
    {[sector_id |-> "semi", sections |-> s] :
        s \in UNION {WriterSections(n) : n \in 0..MaxWriterSections}}

ServiceOutcomes ==
    { [kind |-> "response", text |-> <<"a", " ", "b">>],
      [kind |-> "ImportError"],
      [kind |-> "Exception", message |-> "Service unavailable"],
      [kind |-> "Exception", message |-> ""] }

ApiKeys == {"", "sk-key"}

SectionResultArgs ==
    { [section_id |-> 1, name |-> "Section", content |-> <<"a", " ", "b">>,
       word_count |-> 2, status |-> "generated", error |-> ""],
      [section_id |-> 2, name |-> "Section", content |-> <<"a">>,
       word_count |-> 300, status |-> "generated", error |-> ""],
      [section_id |-> 3, name |-> "Section", content |-> <<>>,
       word_count |-> 0, status |-> "error", error |-> "Service unavailable"],
      [section_id |-> 4, name |-> "Section", content |-> <<>>,
       word_count |-> 7, status |-> "error", error |-> "Service unavailable"],
      [section_id |-> 5, name |-> "Section", content |-> <<>>,
       word_count |-> 0, status |-> "pending", error |-> ""] }

SectionResultLists == ListsUpTo(SectionResultArgs, MaxWriterSections)

AssemblyCitations ==
    { <<>>, << [id |-> None, title |-> "A"], [id |-> I(7), title |-> "B"] >> }

(***************************************************************************)
(* The generator as operations                                             *)
(***************************************************************************)
WriteAllSections ==
    /\ Idle
    /\ \E framework \in WriterFrameworks, api_key \in ApiKeys :
       \E outcomes \in [1..Len(framework.sections) -> ServiceOutcomes] :
           /\ call' = [op |-> "write_all_sections",
                       effective_framework |-> framework,
                       api_key |-> api_key, outcomes |-> outcomes]
           /\ result' = write_all_sections(framework, api_key, outcomes)
    /\ UNCHANGED <<BASE_SECTIONS, sector_config, store, companies, reports>>

AssembleReport ==
    /\ Idle
    /\ \E sections \in SectionResultLists, citations \in AssemblyCitations :
           /\ call' = [op |-> "assemble_report", sections |-> sections,
                       citations |-> citations]
           /\ result' = [exc |-> "none",
                         val |-> assemble_report(sections, [sector_id |-> "semi"],
                                                 citations)]
    /\ UNCHANGED <<BASE_SECTIONS, sector_config, store, companies, reports>>

NextGenerator ==
    \/ WriteAllSections
    \/ AssembleReport
    \/ Finish

SpecGenerator == Init /\ [][NextGenerator]_vars

(***************************************************************************)
(* Properties of the generator                                             *)
(***************************************************************************)
\* C14: a generation run over an effective framework with n sections ends
\* with exactly n section results, one per section in framework order and
\* carrying that section's id; a section whose generation fails for any
\* reason (no credentials, service unavailable, any exception raised while
\* preparing or performing its request) has a result with status error, a
\* non-empty error message, empty content and word_count 0; the run is not
\* aborted and the other results are kept.
C14_EverySectionHasAResult ==
    call.op = "write_all_sections" =>
        LET sections == call.effective_framework.sections
        IN  /\ result.exc = "none"
            /\ Len(result.val) = Len(sections)
            /\ \A i \in 1..Len(sections) :
                   /\ result.val[i].section_id = sections[i].id
                   /\ result.val[i].status \in {"generated", "error"}
                   /\ result.val[i].status = "generated" <=>
                          /\ call.api_key # ""
                          /\ build_section_prompt(sections[i]).exc = "none"
                          /\ call.outcomes[i].kind = "response"
                   /\ result.val[i].status = "error" =>
                          /\ result.val[i].error # ""
                          /\ Len(result.val[i].content) = 0
                          /\ result.val[i].word_count = 0

\* C15: a report produced by assemble_report has status complete iff every
\* one of its section results has status generated, and draft otherwise; no
\* other status occurs.
C15_CompleteIffAllGenerated ==
    call.op = "assemble_report" =>
        /\ result.val.status \in {"complete", "draft"}
        /\ result.val.status = "complete" <=>
               \A i \in 1..Len(call.sections) :
                   call.sections[i].status = "generated"

\* Two generated sections and one failed one: draft
C15_Witness ==
    /\ call.op = "assemble_report"
    /\ Len(call.sections) = 3
    /\ call.sections[1].status = "generated"
    /\ call.sections[2].status = "generated"
    /\ call.sections[3].status = "error"
    /\ result.val.status = "draft"

\* The sum of the word counts of the section results at the positions of S
RECURSIVE SumOver(_, _)
SumOver(sections, positions) ==
    IF positions = {} THEN 0
    ELSE LET i == CHOOSE x \in positions : TRUE
         IN  sections[i].word_count + SumOver(sections, positions \ {i})

\* C16: the word_count of a report produced by assemble_report is the sum of
\* the word_count values of its section results, and word_count and status
\* are the same for every permutation of the section results.
C16_WordCountIsOrderFreeSum ==
    call.op = "assemble_report" =>
        /\ result.val.word_count = SumOver(call.sections, 1..Len(call.sections))
        /\ \A p \in Permutations(1..Len(call.sections)) :
               LET permuted == assemble_report(Reordered(call.sections, p),
                                               [sector_id |-> "semi"],
                                               call.citations)
               IN  /\ permuted.word_count = result.val.word_count
                   /\ permuted.status = result.val.status

\* Three section results with different word counts, a failed one among them
C16_Witness ==
    /\ call.op = "assemble_report"
    /\ Len(call.sections) = 3
    /\ call.sections[1].word_count = 300
    /\ call.sections[2].word_count = 7
    /\ call.sections[3].word_count = 2
    /\ result.val.word_count = 309

(***************************************************************************)
(* db.py: the frameworks table, and the JSON form of a framework           *)
(*                                                                         *)
(* The table is the set of its rows [id, config]; id is the primary key    *)
(* and config the JSON text of the framework document.  In JSON text the   *)
(* members of section_overrides are kept as written, [k, v] with k the     *)
(* member name as characters; two members may carry the same name.         *)
(***************************************************************************)
\* The member name json.dumps writes for a key
JsonKey_repr(key) ==
    IF key.t = "int" THEN str(key.n) ELSE <<"'">> \o key.s \o <<"'">>

JsonKey(key) == IF key.t = "int" THEN str(key.n) ELSE key.s

\* json.dumps(framework)
json_dumps(framework) ==
    IF "section_overrides" \in DOMAIN framework
    THEN LET entries == framework["section_overrides"]
         IN  DictSet(framework, "section_overrides",
                     [i \in 1..Len(entries) |->
                         [k |-> JsonKey(entries[i].k), v |-> entries[i].v]])
    ELSE framework

\* The dict json.loads builds from members: a repeated name keeps the place
\* of its first member and the value of its last
RECURSIVE LoadMembers(_, _, _)
LoadMembers(members, i, entries) ==
    IF i > Len(members) THEN entries
    ELSE LET key == S(members[i].k)
         IN  IF \E j \in 1..Len(entries) : entries[j].k = key
             THEN LoadMembers(members, i + 1,
                      [j \in 1..Len(entries) |->
                          IF entries[j].k = key THEN Entry(key, members[i].v)
                          ELSE entries[j]])
             ELSE LoadMembers(members, i + 1,
                              Append(entries, Entry(key, members[i].v)))

\* json.loads(text)
json_loads(text) ==
    IF "section_overrides" \in DOMAIN text
    THEN DictSet(text, "section_overrides",
                 LoadMembers(text["section_overrides"], 1, <<>>))
    ELSE text

\* generate_id(): eight characters of a fresh uuid.  A framework that passed
\* validate_framework has a sector_id, so no stored id is ever generated.
GeneratedId == S(<<"0", "f", "3", "a", "9", "c", "1", "e">>)

\* framework.get("id") or framework.get("sector_id") or generate_id()
FrameworkId(framework) ==
    PyOr(PyOr(Get(framework, "id", None), Get(framework, "sector_id", None)),
         GeneratedId)

\* INSERT OR REPLACE INTO frameworks ...: [fid, table].  The id column is
\* TEXT: an integer id is stored as its decimal text.
save_framework(table, framework) ==
    LET fid == FrameworkId(framework)
    IN  [fid   |-> fid,
         table |-> {row \in table : row.id # StrOf(fid).s}
                   \cup {[id |-> StrOf(fid).s, config |-> json_dumps(framework)]}]

\* get_framework(framework_id)["config"], or None
get_framework(table, framework_id) ==
    IF \E row \in table : row.id = framework_id
    THEN D(json_loads((CHOOSE row \in table : row.id = framework_id).config))
    ELSE None

\* The framework ids that rows of companies (sector_framework_id) and of
\* reports (framework_id) refer to; both columns REFERENCES frameworks(id)
\* and every connection sets PRAGMA foreign_keys=ON
ReferencedFrameworks(company_rows, report_rows) ==
    {row.sector_framework_id : row \in company_rows}
    \cup {row.framework_id : row \in report_rows}

\* DELETE FROM frameworks WHERE id = ?: [exc, deleted, table].  Deleting a
\* row that a company or a report refers to fails the foreign key; the
\* statement is not committed.
delete_framework(table, framework_id, referenced) ==
    IF (\E row \in table : row.id = framework_id) /\ framework_id \in referenced
    THEN [exc |-> "IntegrityError", deleted |-> None, table |-> table]
    ELSE [exc     |-> "none",
          deleted |-> \E row \in table : row.id = framework_id,
          table   |-> {row \in table : row.id # framework_id}]

\* The columns id, name, display_name and description of a row, as
\* save_framework fills them from the framework
Columns(row) ==
    LET framework == json_loads(row.config)
    IN  [id           |-> row.id,
         name         |-> StrOf(Get(framework, "name", S(row.id))),
         display_name |-> StrOf(Get(framework, "display_name", S(row.id))),
         description  |-> Get(framework, "description", "")]

\* SELECT id, name, display_name, description, created_at FROM frameworks
\* ORDER BY name: one entry per row; rows of equal name come in any order
list_frameworks(table) ==
    LET n == Cardinality(table)
    IN  CHOOSE rows \in [1..n -> {Columns(row) : row \in table}] :
            /\ \A row \in table : \E i \in 1..n : rows[i].id = row.id
            /\ \A i, j \in 1..n : i < j => ~StrGt(rows[i].name.s, rows[j].name.s)

(***************************************************************************)
(* manager.py: FrameworkManager                                            *)
(*                                                                         *)
(* An operation returns [exc, val, table]: the exception raised, the value *)
(* returned and the table afterwards.                                      *)
(***************************************************************************)
NotFound(framework_id) == [rule |-> "not_found", subject |-> S(framework_id)]
SourceNotFound(source_id) == [rule |-> "source_not_found", subject |-> S(source_id)]

\* FrameworkManager.get
get(table, framework_id) == get_framework(table, framework_id)

\* FrameworkManager.list
list(table) == list_frameworks(table)

\* FrameworkManager.get_effective: None, or the outcome of
\* build_effective_framework on the stored config
get_effective(catalog, table, framework_id) ==
    LET config == get(table, framework_id)
    IN  IF config = None THEN [exc |-> "none", val |-> None]
        ELSE Outcome(build_effective_framework(catalog, config.d))

\* FrameworkManager.create: val is (id, errors)
create_unvalidated(table, framework) ==
    LET saved == save_framework(table, framework)
    IN  [exc |-> "none", val |-> [fid |-> saved.fid, errors |-> <<>>],
         table |-> saved.table]

create(table, framework) ==
    LET v == validate_framework(framework)
    IN  IF v.exc # "none" THEN [exc |-> v.exc, val |-> None, table |-> table]
        ELSE IF Len(v.val) > 0
        THEN [exc |-> "none", val |-> [fid |-> S(<<>>), errors |-> v.val],
              table |-> table]
        ELSE LET saved == save_framework(table, framework)
             IN  [exc |-> "none", val |-> [fid |-> saved.fid, errors |-> <<>>],
                  table |-> saved.table]

\* existing.update(updates)
DictUpdate(existing, updates) ==
    [k \in (DOMAIN existing) \cup (DOMAIN updates) |->
        IF k \in DOMAIN updates THEN updates[k] ELSE existing[k]]

\* FrameworkManager.update: val is the list of errors
update(table, framework_id, updates) ==
    LET found == get(table, framework_id)
    IN  IF found = None
        THEN [exc |-> "none", val |-> <<NotFound(framework_id)>>, table |-> table]
        ELSE LET existing == DictUpdate(found.d, updates)
                 v        == validate_framework(existing)
             IN  IF v.exc # "none" THEN [exc |-> v.exc, val |-> None, table |-> table]
                 ELSE IF Len(v.val) > 0
                 THEN [exc |-> "none", val |-> v.val, table |-> table]
                 ELSE [exc |-> "none", val |-> <<>>,
                       table |-> save_framework(
                                     table,
                                     DictSet(existing, "id", S(framework_id))).table]

\* FrameworkManager.delete: val is whether a row was deleted
delete(table, framework_id, referenced) ==
    LET deleted == delete_framework(table, framework_id, referenced)
    IN  [exc |-> deleted.exc, val |-> deleted.deleted, table |-> deleted.table]

Str_Copy_of == <<"C", "o", "p", "y", " ", "o", "f", " ">>

\* source["sector_id"] = target_id; source["id"] = target_id;
\* source["display_name"] = f"Copy of {source.get('display_name', source_id)}"
Retarget(source, source_id, target_id) ==
    LET s1 == DictSet(source, "sector_id", S(target_id))
        s2 == DictSet(s1, "id", S(target_id))
    IN  DictSet(s2, "display_name",
                S(Str_Copy_of \o StrOf(Get(source, "display_name", S(source_id))).s))

\* FrameworkManager.clone: val is (id, errors)
clone(table, source_id, target_id) ==
    LET found == get(table, source_id)
    IN  IF found = None
        THEN [exc |-> "none",
              val |-> [fid |-> S(<<>>), errors |-> <<SourceNotFound(source_id)>>],
              table |-> table]
        ELSE create(table, Retarget(found.d, source_id, target_id))

\* FrameworkManager.export_to_file with fmt = "json": val is whether a file
\* was written, file its text
export_to_file(table, framework_id) ==
    LET found == get(table, framework_id)
    IN  IF found = None THEN [exc |-> "none", val |-> FALSE, file |-> None]
        ELSE [exc |-> "none", val |-> TRUE, file |-> D(json_dumps(found.d))]

\* FrameworkManager.import_from_file
import_from_file(table, file) == create(table, json_loads(file))

(***************************************************************************)
(* The inputs of the framework manager                                     *)
(***************************************************************************)
\* Longest display name of a source that is cloned ("Copy of " is prefixed
\* at each clone)
MaxDisplayName == 9

FrameworkIds == {<<"a">>, <<"b">>}
TargetIds == FrameworkIds \cup {<<"a", " ", "b">>}

ManagerTop(sid) ==
    [sector_id |-> S(sid), display_name |-> S(<<"X">>),
     description |-> "Semiconductors",
     data_requirements |-> [financials |-> <<"revenue">>]]

\* A map with the keys 1 and "1", a map with one string key, and a map whose
\* word_count is inverted
TwoKeyMap ==
    <<Entry(I(1), D([name_override |-> "Custom Name"])),
      Entry(S(<<"1">>), D([required_elements |-> <<"test">>]))>>
StringKeyMap == <<Entry(S(<<"3">>), D([name_override |-> "Custom Section 3"]))>>
InvertedMap == <<Entry(S(<<"3">>), D([word_count |-> [min |-> I(2), max |-> I(1)]]))>>

ManagerMaps == {TwoKeyMap, StringKeyMap, InvertedMap}

ManagerDocs ==
    LET tops == {ManagerTop(sid) : sid \in TargetIds}
        withId == tops \cup {DictSet(top, "id", S(<<"b">>)) : top \in tops}
    IN  withId
        \cup {WithOverrides(top, m) : top \in withId, m \in ManagerMaps}
        \cup {[sector_id |-> S(<<"a">>)], [sector_id |-> I(7), display_name |-> S(<<"X">>)]}

\* Files as an editor or an export leaves them
ManagerFiles ==
    {json_dumps(doc) : doc \in {d \in ManagerDocs : "id" \notin DOMAIN d}}

ManagerUpdates ==
    { [display_name |-> S(<<"Y">>)],
      [display_name |-> S(<<>>)],
      [sector_id |-> S(<<"b">>)],
      [section_overrides |-> StringKeyMap],
      [section_overrides |-> InvertedMap] }

(***************************************************************************)
(* The calls of the framework manager                                      *)
(***************************************************************************)
Create ==
    /\ Idle
    /\ \E framework \in ManagerDocs :
           LET r == create(store, framework) IN
           /\ call' = [op |-> "create", framework |-> framework]
           /\ result' = Outcome(r)
           /\ store' = r.table
    /\ UNCHANGED <<BASE_SECTIONS, sector_config, companies, reports>>

Update ==
    /\ Idle
    /\ \E framework_id \in FrameworkIds, updates \in ManagerUpdates :
           LET r == update(store, framework_id, updates) IN
           /\ call' = [op |-> "update", framework_id |-> framework_id,
                       updates |-> updates]
           /\ result' = Outcome(r)
           /\ store' = r.table
    /\ UNCHANGED <<BASE_SECTIONS, sector_config, companies, reports>>

Delete ==
    /\ Idle
    /\ \E framework_id \in FrameworkIds :
           LET r == delete(store, framework_id,
                           ReferencedFrameworks(companies, reports)) IN
           /\ call' = [op |-> "delete", framework_id |-> framework_id]
           /\ result' = Outcome(r)
           /\ store' = r.table
    /\ UNCHANGED <<BASE_SECTIONS, sector_config, companies, reports>>

Clonable(source_id) ==
    LET source == get(store, source_id)
    IN  source # None =>
            Len(StrOf(Get(source.d, "display_name", S(source_id))).s) <= MaxDisplayName

Clone ==
    /\ Idle
    /\ \E source_id \in FrameworkIds, target_id \in TargetIds :
           /\ Clonable(source_id)
           /\ LET r == clone(store, source_id, target_id) IN
              /\ call' = [op |-> "clone", source_id |-> source_id,
                          target_id |-> target_id]
              /\ result' = Outcome(r)
              /\ store' = r.table
    /\ UNCHANGED <<BASE_SECTIONS, sector_config, companies, reports>>

ImportFromFile ==
    /\ Idle
    /\ \E file \in ManagerFiles :
           LET r == import_from_file(store, file) IN
           /\ call' = [op |-> "import_from_file", file |-> file]
           /\ result' = Outcome(r)
           /\ store' = r.table
    /\ UNCHANGED <<BASE_SECTIONS, sector_config, companies, reports>>

\* export_to_file, delete, import_from_file of one stored framework; the
\* result keeps the three return values and the effective framework that
\* get_effective returns before the export and after the import.  A delete
\* that raises ends the sequence.
ExportImport ==
    /\ Idle
    /\ \E framework_id \in FrameworkIds :
           /\ get(store, framework_id) # None
           /\ LET exported == export_to_file(store, framework_id)
                  deleted  == delete(store, framework_id,
                                     ReferencedFrameworks(companies, reports))
                  imported == import_from_file(deleted.table, exported.file.d)
                  before   == get_effective(BASE_SECTIONS, store, framework_id)
              IN  /\ call' = [op |-> "export_import", framework_id |-> framework_id]
                  /\ IF deleted.exc # "none"
                     THEN /\ result' = [exc |-> deleted.exc, val |-> None,
                                        exported |-> exported.val,
                                        deleted |-> None,
                                        before |-> before, after |-> None]
                          /\ store' = store
                     ELSE /\ result' =
                                [exc |-> imported.exc, val |-> imported.val,
                                 exported |-> exported.val, deleted |-> deleted.val,
                                 before |-> before,
                                 after |-> get_effective(BASE_SECTIONS, imported.table,
                                                         framework_id)]
                          /\ store' = imported.table
    /\ UNCHANGED <<BASE_SECTIONS, sector_config, companies, reports>>

(***************************************************************************)
(* Company profiles (db.py: save_company; cli.py: report new)              *)
(***************************************************************************)
\* Ids that generate_id may return for a company profile
CompanyIds == {"c1"}
Tickers == {"TEST"}

\* create_company_profile: the fields that reach the columns of the row
create_company_profile(id, ticker, sector_framework) ==
    [id |-> id, metadata |-> [ticker |-> ticker, sector_framework |-> sector_framework]]

\* INSERT OR REPLACE INTO companies ...: [exc, cid, table].  The column
\* sector_framework_id REFERENCES frameworks(id).
save_company(company_rows, company, framework_rows) ==
    IF \A row \in framework_rows : row.id # company.metadata.sector_framework
    THEN [exc |-> "IntegrityError", cid |-> None, table |-> company_rows]
    ELSE [exc   |-> "none",
          cid   |-> company.id,
          table |-> {row \in company_rows : row.id # company.id}
                    \cup {[id |-> company.id, ticker |-> company.metadata.ticker,
                           sector_framework_id |-> company.metadata.sector_framework]}]

\* report new TICKER --framework ID: returns early when the framework is not
\* stored, else saves a profile under a fresh id
ReportNew ==
    /\ Idle
    /\ \E ticker \in Tickers, framework_id \in FrameworkIds :
           /\ call' = [op |-> "report_new", ticker |-> ticker,
                       framework_id |-> framework_id]
           /\ IF get(store, framework_id) = None
              THEN /\ result' = [exc |-> "none", val |-> None]
                   /\ companies' = companies
              ELSE \E id \in CompanyIds \ {row.id : row \in companies} :
                       LET saved == save_company(
                                        companies,
                                        create_company_profile(id, ticker, framework_id),
                                        store)
                       IN  /\ result' = [exc |-> saved.exc, val |-> saved.cid]
                           /\ companies' = saved.table
    /\ UNCHANGED <<BASE_SECTIONS, sector_config, store, reports>>

List ==
    /\ Idle
    /\ call' = [op |-> "list"]
    /\ result' = [exc |-> "none", val |-> list(store)]
    /\ UNCHANGED <<BASE_SECTIONS, sector_config, store, companies, reports>>

GetEffective ==
    /\ Idle
    /\ \E framework_id \in FrameworkIds :
           /\ call' = [op |-> "get_effective", framework_id |-> framework_id]
           /\ result' = get_effective(BASE_SECTIONS, store, framework_id)
    /\ UNCHANGED <<BASE_SECTIONS, sector_config, store, companies, reports>>

NextManager ==
    \/ ReportNew
    \/ List
    \/ GetEffective
    \/ Create
    \/ Update
    \/ Delete
    \/ Clone
    \/ ImportFromFile
    \/ ExportImport
    \/ Finish

SpecManager == Init /\ [][NextManager]_vars

(***************************************************************************)
(* Properties of the framework manager                                     *)
(***************************************************************************)
\* The config that get returns for a stored row
ConfigOf(row) == json_loads(row.config)

\* C18: every stored framework is stored under an id equal to the sector_id
\* of its own config, so get(id) is None or a config whose sector_id is id,
\* and no two stored frameworks share a sector_id.
C18_IdentityIsSectorId ==
    /\ \A row \in store : Get(ConfigOf(row), "sector_id", None) = S(row.id)
    /\ \A framework_id \in FrameworkIds :
           get(store, framework_id) # None =>
               Get(get(store, framework_id).d, "sector_id", None) = S(framework_id)
    /\ \A row, other \in store :
           Get(ConfigOf(row), "sector_id", None) = Get(ConfigOf(other), "sector_id", None)
               => row = other

ManagerWrites == {"create", "update", "clone", "import_from_file"}

\* The stored framework a writing call reads first, or None
ReadBy(table, c) ==
    IF c.op = "update" THEN get(table, c.framework_id)
    ELSE IF c.op = "clone" THEN get(table, c.source_id)
    ELSE D(<<>>)

\* The framework a writing call would store
WouldStore(table, c) ==
    IF c.op = "create" THEN c.framework
    ELSE IF c.op = "import_from_file" THEN json_loads(c.file)
    ELSE IF c.op = "update" THEN DictUpdate(ReadBy(table, c).d, c.updates)
    ELSE Retarget(ReadBy(table, c).d, c.source_id, c.target_id)

\* validate_framework reports errors for the framework
Rejected(framework) ==
    LET v == validate_framework(framework) IN v.exc = "none" /\ Len(v.val) > 0

\* C17: create, update, clone and import_from_file leave the store unchanged
\* whenever validate_framework reports errors for the framework they would
\* store: create, clone and import return an empty id with the errors, update
\* returns the errors, and update of a missing id returns a not-found error.
\* Hence every stored config passes validate_framework, and a valid create
\* is retrievable by get under the returned id.
C17_InvalidIsNeverStored ==
    [][ /\ (call'.op \in ManagerWrites /\ ReadBy(store, call') # None
              /\ Rejected(WouldStore(store, call'))) =>
               /\ store' = store
               /\ result'.exc = "none"
               /\ LET errors == validate_framework(WouldStore(store, call')).val
                  IN  result'.val = IF call'.op = "update" THEN errors
                                    ELSE [fid |-> S(<<>>), errors |-> errors]
        /\ (call'.op = "update" /\ ReadBy(store, call') = None) =>
               /\ store' = store
               /\ result'.val = <<NotFound(call'.framework_id)>>
        /\ \A row \in store' : Accepted(ConfigOf(row))
        /\ (call'.op = "create" /\ Accepted(call'.framework)) =>
               /\ result'.val.errors = <<>>
               /\ get(store', StrOf(result'.val.fid).s)
                      = D(json_loads(json_dumps(call'.framework)))
      ]_vars

\* A clone of a stored framework was rejected for its target id while two
\* frameworks are stored
C17_Witness ==
    /\ call.op = "clone"
    /\ get(store, call.source_id) # None
    /\ result.val.errors # <<>>
    /\ Cardinality(store) = 2

\* The round trip went through and gave back the framework
RoundTripSucceeded ==
    /\ result.exc = "none"
    /\ result.exported
    /\ result.deleted = TRUE
    /\ result.val.errors = <<>>
    /\ StrOf(result.val.fid).s = call.framework_id
    /\ result.after.val # None
    /\ result.after.exc = result.before.exc
    /\ result.after.val.sections = result.before.val.sections

Taken(config) ==
    [f \in {"section_overrides", "description", "data_requirements"} |->
        Get(config, f, None)]

\* C20: clone(source_id, target_id) with an existing source and a valid
\* target id returns (target_id, []) and stores under target_id a framework
\* whose section_overrides, description and data_requirements are the
\* source's and whose sector_id is target_id, while the source record and
\* every other stored framework stay unchanged; with a missing source it
\* returns a not-found error and changes nothing.
C20_CloneFrame ==
    [][ call'.op = "clone" =>
          LET source == get(store, call'.source_id)
              target == get(store', call'.target_id)
          IN  IF source = None
              THEN /\ store' = store
                   /\ result'.val = [fid |-> S(<<>>),
                                     errors |-> <<SourceNotFound(call'.source_id)>>]
              ELSE SectorIdFormatOk(call'.target_id) =>
                   /\ result'.val = [fid |-> S(call'.target_id), errors |-> <<>>]
                   /\ target # None
                   /\ Taken(target.d) = Taken(source.d)
                   /\ target.d["sector_id"] = S(call'.target_id)
                   /\ \A row \in store : row \in store'
      ]_vars

StoredIds == {row.id : row \in store}

\* C21: delete(id) returns true iff a framework was stored under id;
\* afterwards get(id) and get_effective(id) return None until a create, a
\* clone or an import stores that id again, every other stored framework is
\* unchanged, and list returns as many frameworks as there are distinct ids
\* stored.
C21_Delete ==
    [][ /\ call'.op = "delete" =>
              /\ result'.exc = "none"
              /\ result'.val = (call'.framework_id \in StoredIds)
              /\ get(store', call'.framework_id) = None
              /\ get_effective(BASE_SECTIONS, store', call'.framework_id).val = None
              /\ \A row \in store : row.id # call'.framework_id => row \in store'
              /\ \A row \in store' : row \in store
        /\ \A framework_id \in FrameworkIds :
              (get(store, framework_id) = None /\ get(store', framework_id) # None)
                  => call'.op \in {"create", "clone", "import_from_file"}
        /\ Len(list(store')) = Cardinality({row.id : row \in store'})
        /\ call'.op = "list" => Len(result'.val) = Cardinality(StoredIds)
        /\ (call'.op = "get_effective" /\ call'.framework_id \notin StoredIds)
              => result'.val = None
      ]_vars

(***************************************************************************)
(* db.py: the reports table; cli.py: report qa                             *)
(*                                                                         *)
(* A row has the columns of the table; the JSON columns hold [json |-> v], *)
(* the text of the value v.  The values written here (lists and dicts with *)
(* string keys, integers, strings, None) are read back as written.         *)
(***************************************************************************)
\* json.dumps(value) and json.loads(text) of a column of the reports table
json_dumps_column(value) == [json |-> value]
json_loads_column(text) == text.json

\* datetime.now() of a save: later than the time of every stored row
Now(report_rows) ==
    IF report_rows = {} THEN 1
    ELSE 1 + (CHOOSE t \in {row.updated_at : row \in report_rows} :
                  \A row \in report_rows : row.updated_at <= t)

\* report.get("id") or generate_id()
ReportId(report) ==
    IF "id" \in DOMAIN report /\ report["id"] # <<>> THEN report["id"] ELSE GeneratedId.s

\* INSERT OR REPLACE INTO reports ...: [exc, rid, table].  company_id
\* REFERENCES companies(id) and framework_id REFERENCES frameworks(id).
save_report(report_rows, report, company_rows, framework_rows) ==
    LET rid == ReportId(report)
        now == Now(report_rows)
        row == [id                |-> rid,
                company_id        |-> Get(report, "company_id", ""),
                framework_id      |-> Get(report, "framework_id", <<>>),
                status            |-> Get(report, "status", "draft"),
                report_date       |-> Get(report, "report_date", ""),
                reference_quarter |-> Get(report, "reference_quarter", ""),
                sections          |-> json_dumps_column(Get(report, "sections", <<>>)),
                citations         |-> json_dumps_column(Get(report, "citations", <<>>)),
                qa_results        |-> json_dumps_column(Get(report, "qa_results", None)),
                word_count        |-> Get(report, "word_count", 0),
                output_paths      |-> json_dumps_column(Get(report, "output_paths", <<>>)),
                created_at        |-> now,
                updated_at        |-> now]
    IN  IF \/ \A c \in company_rows : c.id # row.company_id
           \/ \A f \in framework_rows : f.id # row.framework_id
        THEN [exc |-> "IntegrityError", rid |-> None, table |-> report_rows]
        ELSE [exc   |-> "none",
              rid   |-> rid,
              table |-> {r \in report_rows : r.id # rid} \cup {row}]

\* save_assembled_report
save_assembled_report(report_rows, report, company_rows, framework_rows) ==
    save_report(report_rows, report, company_rows, framework_rows)

\* dict(row) with the JSON columns loaded (each holds a non-empty text)
LoadedReport(row) ==
    [k \in DOMAIN row |->
        IF k \in {"sections", "citations", "qa_results", "output_paths"}
        THEN json_loads_column(row[k]) ELSE row[k]]

\* SELECT r.* FROM reports r JOIN companies c ON r.company_id = c.id
\* WHERE c.ticker = ? ORDER BY r.updated_at DESC
get_reports_for_company(report_rows, company_rows, ticker) ==
    LET found == {r \in report_rows :
                     \E c \in company_rows : c.id = r.company_id /\ c.ticker = ticker}
        n     == Cardinality(found)
    IN  CHOOSE rows \in [1..n -> {LoadedReport(r) : r \in found}] :
            /\ \A r \in found : \E i \in 1..n : rows[i].id = r.id
            /\ \A i, j \in 1..n : i < j => rows[i].updated_at >= rows[j].updated_at

\* latest["qa_results"] = qa_results
attach_alone(latest, qa_results) ==
    [id |-> latest.id, company_id |-> latest.company_id,
     framework_id |-> latest.framework_id, qa_results |-> qa_results]

attach(latest, qa_results) ==
    [k \in DOMAIN latest |-> IF k = "qa_results" THEN qa_results ELSE latest[k]]

\* report qa TICKER: [exc, val, table]; val is the QA result shown, or None
\* when the company has no report
report_qa(report_rows, company_rows, framework_rows, ticker) ==
    LET found == get_reports_for_company(report_rows, company_rows, ticker)
    IN  IF Len(found) = 0
        THEN [exc |-> "none", val |-> None, table |-> report_rows]
        ELSE LET latest     == found[1]
                 qa_results == run_qa_checks(latest)
                 saved      == save_assembled_report(report_rows,
                                                     attach(latest, qa_results),
                                                     company_rows, framework_rows)
             IN  [exc |-> saved.exc,
                  val |-> IF saved.exc = "none" THEN qa_results ELSE None,
                  table |-> saved.table]

(***************************************************************************)
(* Reports handed to the reports table                                     *)
(***************************************************************************)
\* Latest time of a save
MaxClock == 3

ReportIds == {<<"r", "1">>, <<"r", "2">>}

GeneratedSection ==
    [section_id |-> 1, name |-> "Section", content |-> Text_we,
     word_count |-> WordCount(Text_we), status |-> "generated", error |-> ""]
FailedSection ==
    [section_id |-> 2, name |-> "Section", content |-> <<>>,
     word_count |-> 0, status |-> "error", error |-> "Service unavailable"]

StoredSectionLists ==
    { << GeneratedSection >>, << GeneratedSection, FailedSection >> }

\* Reports as assemble_report builds them, with the id, the company and the
\* output paths that the generate command gives them
AssembledReports ==
    { [k \in DOMAIN assembled \cup {"id", "company_id", "report_date",
                                    "reference_quarter", "output_paths"} |->
          CASE k = "id" -> id
            [] k = "company_id" -> company_id
            [] k = "report_date" -> "2026-02-12"
            [] k = "reference_quarter" -> "Q4 FY2026"
            [] k = "output_paths" -> output_paths
            [] OTHER -> assembled[k]] :
        id \in ReportIds,
        company_id \in CompanyIds,
        output_paths \in {<<>>, [markdown |-> "output/TEST/2026-02-12_report.md"]},
        assembled \in {assemble_report(sections, [sector_id |-> <<"a">>], citations) :
                          sections \in StoredSectionLists,
                          citations \in AssemblyCitations} }

\* The frameworks "a" and "b" as create stores them
StoredFrameworks ==
    save_framework(save_framework({}, ManagerTop(<<"a">>)).table,
                   ManagerTop(<<"b">>)).table

InitReports ==
    /\ BASE_SECTIONS = BaseCatalog
    /\ sector_config = None
    /\ call = [op |-> "none"]
    /\ result = [exc |-> "none", val |-> None]
    /\ store = StoredFrameworks
    /\ companies = {}
    /\ reports = {}

(***************************************************************************)
(* The calls on the reports table                                          *)
(***************************************************************************)
SaveAssembledReport ==
    /\ Idle
    /\ Now(reports) <= MaxClock
    /\ \E report \in AssembledReports :
           LET saved == save_assembled_report(reports, report, companies, store) IN
           /\ call' = [op |-> "save_assembled_report", report |-> report]
           /\ result' = [exc |-> saved.exc, val |-> saved.rid]
           /\ reports' = saved.table
    /\ UNCHANGED <<BASE_SECTIONS, sector_config, store, companies>>

ReportQa ==
    /\ Idle
    /\ Now(reports) <= MaxClock
    /\ \E ticker \in Tickers :
           LET r == report_qa(reports, companies, store, ticker) IN
           /\ call' = [op |-> "report_qa", ticker |-> ticker]
           /\ result' = Outcome(r)
           /\ reports' = r.table
    /\ UNCHANGED <<BASE_SECTIONS, sector_config, store, companies>>

NextReports ==
    \/ ReportNew
    \/ SaveAssembledReport
    \/ ReportQa
    \/ Delete
    \/ Finish

SpecReports == InitReports /\ [][NextReports]_vars

(***************************************************************************)
(* Properties of the QA pass                                               *)
(***************************************************************************)
RowOf(report_rows, id) == CHOOSE row \in report_rows : row.id = id

\* The fields of a stored report that the QA pass is to leave alone
Kept(row) ==
    [k \in {"sections", "citations", "status", "word_count", "output_paths"} |->
        LoadedReport(row)[k]]

\* C22: run_qa_checks is a function of the report's sections, citations and
\* word count alone (the same report yields the same result, with or without
\* a qa_results field); the QA pass attaches the result as qa_results and
\* saves the whole record under the same report id, so the stored report's
\* sections, citations, status, word_count and output_paths are those before
\* the pass and no further report record exists.
C22_QaPassKeepsTheReport ==
    [][ call'.op = "report_qa" =>
          LET found == get_reports_for_company(reports, companies, call'.ticker)
          IN  IF Len(found) = 0
              THEN reports' = reports /\ result'.val = None
              ELSE LET latest == found[1]
                       before == RowOf(reports, latest.id)
                       after  == RowOf(reports', latest.id)
                   IN  /\ result'.exc = "none"
                       /\ {row.id : row \in reports'} = {row.id : row \in reports}
                       /\ \A row \in reports : row.id # latest.id => row \in reports'
                       /\ Kept(after) = Kept(before)
                       /\ LoadedReport(after).qa_results = run_qa_checks(latest)
                       /\ run_qa_checks(LoadedReport(after)) = run_qa_checks(latest)
                       /\ result'.val = LoadedReport(after).qa_results
      ]_vars

\* The QA pass ran on the later of two stored reports, one that has
\* citations and output paths
C22_Witness ==
    /\ call.op = "report_qa"
    /\ Cardinality(reports) = 2
    /\ result.val # None
    /\ \E row \in reports :
           /\ LoadedReport(row).qa_results = result.val
           /\ Len(LoadedReport(row).citations) > 0
           /\ LoadedReport(row).output_paths # <<>>
           /\ \A other \in reports : other.updated_at <= row.updated_at
           /\ \E other \in reports : LoadedReport(other).qa_results = None

(***************************************************************************)
(* Properties of validate_section_content                                  *)
(***************************************************************************)
\* The word_count the claim gives section n under the framework: that of the
\* override found under the integer or the string key when it supplies one,
\* else the base section's
ClaimedWordCount(cat, framework, n) ==
    LET overrides == Get(framework, "section_overrides", <<>>)
        supplying == {i \in 1..Len(overrides) :
                         /\ overrides[i].k \in {I(n), S(str(n))}
                         /\ overrides[i].v.t = "dict"
                         /\ "word_count" \in DOMAIN overrides[i].v.d}
    IN  IF supplying # {}
        THEN overrides[CHOOSE i \in supplying : TRUE].v.d["word_count"]
        ELSE cat[FindSection(cat, I(n))]["word_count"]

\* C23: for a section id in 1..11 validate_section_content uses the
\* word_count of the framework's override for that id (integer or string
\* key) when the override supplies one and the base section's otherwise, and
\* returns a below-minimum warning iff the word count is less than min, an
\* exceeds-maximum warning iff it is greater than max, and nothing when
\* min <= count <= max; for an id outside 1..11 it returns exactly one
\* unknown-section warning; it never raises.
C23_SectionContentWarnings ==
    call.op = "validate_section_content" =>
        /\ result.exc = "none"
        /\ IF call.section_id.t = "int" /\ call.section_id.n \in 1..11
           THEN LET wc    == ClaimedWordCount(BASE_SECTIONS, call.framework,
                                              call.section_id.n)
                    count == I(WordCount(call.content))
                IN  /\ Messages(result.val) \subseteq
                           {BelowMinimum(call.section_id), ExceedsMaximum(call.section_id)}
                    /\ BelowMinimum(call.section_id) \in Messages(result.val)
                           <=> PyGt(wc["min"], count)
                    /\ ExceedsMaximum(call.section_id) \in Messages(result.val)
                           <=> PyGt(count, wc["max"])
           ELSE result.val = <<UnknownSection(call.section_id)>>

(***************************************************************************)
(* Texts handed to the tone checks                                         *)
(***************************************************************************)
ToneWords ==
    { <<"m", "a", "s", "s", "i", "v", "e">>,
      <<"I", "n", "c", "r", "e", "d", "i", "b", "l", "e">>,
      <<"M", "A", "S", "S", "I", "V", "E">>,
      <<"m", "a", "s", "s">>,
      <<"i", "v", "e">>,
      <<"j", "a", "w", "-", "d", "r", "o", "p", "p", "i", "n", "g">>,
      <<"d", "i", "s", "r", "u", "p", "t", "i", "v", "e">>,
      <<"I">>,
      <<"i">>,
      <<"I", "t">>,
      <<"w", "e">>,
      <<"W", "e">>,
      <<"W", "E">>,
      <<"w", "e", "b">>,
      <<"o", "u", "r">>,
      <<"h", "o", "u", "r">>,
      <<"M", "y">>,
      <<"a", "r", "m", "y">>,
      <<"u", "s">>,
      <<"U", "S">>,
      <<"b", "u", "s">> }

\* What may stand between two words of a text
ToneSeparators == { <<" ">>, <<>>, <<"_">>, <<"'">>, <<".", "\n">> }

ToneTexts ==
    {<<>>} \cup ToneWords
    \cup {a \o sep \o b : a \in ToneWords, b \in ToneWords, sep \in ToneSeparators}

ToneSection(n, content) ==
    [section_id |-> n, content |-> content, word_count |-> WordCount(content),
     status |-> "generated"]

\* Reports of one section, and of two sections of one word each
ToneReports ==
    {[sections |-> <<ToneSection(1, text)>>, citations |-> <<>>,
      word_count |-> WordCount(text)] : text \in ToneTexts}
    \cup {[sections |-> <<ToneSection(1, a), ToneSection(2, b)>>, citations |-> <<>>,
           word_count |-> 2] : a \in ToneWords, b \in ToneWords}

RunQAChecksOnText ==
    /\ Idle
    /\ \E report \in ToneReports :
           /\ call' = [op |-> "run_qa_checks", report |-> report]
           /\ result' = [exc |-> "none", val |-> run_qa_checks(report)]
    /\ UNCHANGED <<BASE_SECTIONS, sector_config, store, companies, reports>>

NextTone ==
    \/ RunQAChecksOnText
    \/ Finish

SpecTone == Init /\ [][NextTone]_vars

(***************************************************************************)
(* Properties of the tone checks                                           *)
(***************************************************************************)
\* The combined content of the report in hand
CombinedContent ==
    Join(Contents(SelectSeq(call.report.sections, IsGenerated)), <<"\n", "\n">>)

\* The hype words that occur in a text, whatever the letter case
HypeWordsIn(text) ==
    {HYPE_WORDS[k] : k \in {j \in 1..Len(HYPE_WORDS) :
        \E i \in 1..Len(text) :
            /\ i + Len(HYPE_WORDS[j]) - 1 <= Len(text)
            /\ lower(SubSeq(text, i, i + Len(HYPE_WORDS[j]) - 1)) = HYPE_WORDS[j]}}

\* C24: tone.no_hype_language fails iff at least one word of the hype-word
\* list occurs as a case-insensitive substring of the combined content of
\* the report's sections, and its message then names exactly the hype words
\* that occur; it passes, at level warning, when none occurs.
C24_HypeLanguage ==
    QAReturned =>
        LET check == CheckNamed(ChecksOf(result.val, "tone"), "no_hype_language")
            found == HypeWordsIn(CombinedContent)
        IN  /\ check.pass <=> found = {}
            /\ check.level = "warning"
            /\ ~check.pass =>
                   /\ check.message.text = "Hype words found"
                   /\ Elements(check.message.words) = found
                   /\ Len(check.message.words) = Cardinality(found)
            /\ check.pass => check.message = Msg("No hype language detected", <<>>, <<>>)

\* A text with "Incredible" and "MASSIVE" failed, naming both words
C24_Witness ==
    /\ QAReturned
    /\ CombinedContent = <<"I", "n", "c", "r", "e", "d", "i", "b", "l", "e">> \o <<" ">> \o <<"M", "A", "S", "S", "I", "V", "E">>
    /\ LET check == CheckNamed(ChecksOf(result.val, "tone"), "no_hype_language")
       IN  /\ ~check.pass
           /\ Elements(check.message.words) = {HYPE_WORDS[1], HYPE_WORDS[2]}

\* The whole words of a text: its longest runs of letters, digits and "_"
WordsOf(text) ==
    {SubSeq(text, i, j) : <<i, j>> \in
        {p \in (1..Len(text)) \X (1..Len(text)) :
            /\ p[1] <= p[2]
            /\ \A k \in p[1]..p[2] : text[k] \in WordChars
            /\ p[1] > 1 => text[p[1] - 1] \notin WordChars
            /\ p[2] < Len(text) => text[p[2] + 1] \notin WordChars}}

FirstPersonWord(w) ==
    \/ w = <<"I">>
    \/ lower(w) \in {<<"w", "e">>, <<"o", "u", "r">>, <<"m", "y">>, <<"u", "s">>}

\* C25: tone.no_first_person fails iff the combined content contains, as a
\* whole word, "I" in upper case, or "we", "our", "my" or "us" in any letter
\* case; a lower-case "i" never triggers the check.
C25_FirstPerson ==
    QAReturned =>
        LET check == CheckNamed(ChecksOf(result.val, "tone"), "no_first_person")
        IN  /\ check.pass <=> ~ \E w \in WordsOf(CombinedContent) : FirstPersonWord(w)
            /\ check.level = "warning"
            /\ (WordsOf(CombinedContent) \subseteq {<<"i">>, <<"b", "u", "s">>, <<"w", "e", "b">>})
                   => check.pass

\* "WE" next to "bus" failed the check, and "i" next to "bus" passed it
C25_Witness ==
    /\ QAReturned
    /\ CombinedContent = <<"W", "E", " ", "b", "u", "s">>
    /\ ~CheckNamed(ChecksOf(result.val, "tone"), "no_first_person").pass

C25_WitnessLowerI ==
    /\ QAReturned
    /\ CombinedContent = <<"i", " ", "b", "u", "s">>
    /\ CheckNamed(ChecksOf(result.val, "tone"), "no_first_person").pass

(***************************************************************************)
(* base.py: the aggregate targets, and the view that prints them           *)
(***************************************************************************)
\* sum(s[field][bound] for s in BASE_SECTIONS) for the first n sections
RECURSIVE SumWords(_, _, _)
SumWords(cat, bound, n) ==
    IF n = 0 THEN 0 ELSE SumWords(cat, bound, n - 1) + cat[n].word_count[bound].n

RECURSIVE SumCitations(_, _, _)
SumCitations(cat, bound, n) ==
    IF n = 0 THEN 0 ELSE SumCitations(cat, bound, n - 1) + cat[n].citation_target[bound]

get_total_word_target_of_first(cat) ==
    [min |-> SumWords(cat, "min", 1), max |-> SumWords(cat, "max", 1)]

get_total_word_target(cat) ==
    [min |-> SumWords(cat, "min", Len(cat)), max |-> SumWords(cat, "max", Len(cat))]

get_total_citation_target(cat) ==
    [min |-> SumCitations(cat, "min", Len(cat)), max |-> SumCitations(cat, "max", Len(cat))]

GetTotalWordTarget ==
    /\ Idle
    /\ call' = [op |-> "get_total_word_target"]
    /\ result' = [exc |-> "none", val |-> get_total_word_target(BASE_SECTIONS)]
    /\ UNCHANGED <<BASE_SECTIONS, sector_config, store, companies, reports>>

GetTotalCitationTarget ==
    /\ Idle
    /\ call' = [op |-> "get_total_citation_target"]
    /\ result' = [exc |-> "none", val |-> get_total_citation_target(BASE_SECTIONS)]
    /\ UNCHANGED <<BASE_SECTIONS, sector_config, store, companies, reports>>

\* irf framework view: the effective framework of a config, then the totals
FrameworkView ==
    /\ Idle
    /\ \E config \in FrameworkDocs \cup ContentDocs :
        LET r == build_effective_framework(BASE_SECTIONS, config) IN
        /\ call' = [op |-> "framework_view", sector_config |-> config]
        /\ result' = IF r.exc # "none" THEN Outcome(r)
                     ELSE [exc |-> "none",
                           val |-> [effective |-> r.val,
                                    totals |-> get_total_word_target(r.cat),
                                    cit_totals |-> get_total_citation_target(r.cat)]]
        /\ BASE_SECTIONS' = r.cat
        /\ sector_config' = config
        /\ UNCHANGED <<store, companies, reports>>

NextTargets ==
    \/ GetTotalWordTarget
    \/ GetTotalCitationTarget
    \/ FrameworkView
    \/ BuildEffectiveSection
    \/ BuildEffectiveFramework
    \/ Finish

SpecTargets == Init /\ [][NextTargets]_vars

(***************************************************************************)
(* Properties of the aggregate targets                                     *)
(***************************************************************************)
WordTotals == [min |-> 5300, max |-> 7400]
CitationTotals == [min |-> 43, max |-> 68]

\* C26: the base catalog has exactly 11 sections with ids 1..11 in order,
\* each with word_count.min > 0, word_count.min <= word_count.max and
\* citation_target.min <= citation_target.max; get_total_word_target and
\* get_total_citation_target return the sums of the mins and of the maxes
\* over these 11 sections (5300-7400 words, 43-68 citations), whatever
\* sector framework or overrides exist.
C26_BaseTotals ==
    /\ Len(BASE_SECTIONS) = 11
    /\ \A i \in 1..11 :
          /\ BASE_SECTIONS[i]["id"] = i
          /\ BASE_SECTIONS[i].word_count.min.n > 0
          /\ BASE_SECTIONS[i].word_count.min.n <= BASE_SECTIONS[i].word_count.max.n
          /\ BASE_SECTIONS[i].citation_target.min <= BASE_SECTIONS[i].citation_target.max
    /\ call.op = "get_total_word_target" => result.val = WordTotals
    /\ call.op = "get_total_citation_target" => result.val = CitationTotals
    /\ (call.op = "framework_view" /\ result.exc = "none") =>
          /\ result.val.totals = WordTotals
          /\ result.val.cit_totals = CitationTotals

\* A framework whose first section is cut to 1-2 words was viewed, and the
\* totals printed with it are those of the base catalog
C26_Witness ==
    /\ call.op = "framework_view"
    /\ result.exc = "none"
    /\ result.val.effective.sections[1].word_count = [min |-> I(1), max |-> I(2)]
    /\ result.val.totals = WordTotals

(***************************************************************************)
(* Properties of the override keys                                         *)
(***************************************************************************)
\* The warnings validate_section_content owes a text of count words under wc
WarningsFor(section_id, wc, count) ==
    {BelowMinimum(section_id) : x \in {y \in {1} : wc["min"].n > count}}
    \cup {ExceedsMaximum(section_id) : x \in {y \in {1} : count > wc["max"].n}}

BothBounds(wc) ==
    /\ DOMAIN wc = {"min", "max"}
    /\ wc["min"].t = "int"
    /\ wc["max"].t = "int"

\* C27: for every framework accepted by validate_framework and every key of
\* its section_overrides that the validator resolves to base id k (integer
\* k, or a numeric string that resolves to k), build_effective_framework
\* applies that override to section k, and validate_section_content
\* resolves the same override for k.
C27_ValidatorAndMergeAgree ==
    /\ (/\ call.op = "build_effective_framework"
        /\ Accepted(call.sector_config)
        /\ OverridesAreStructs(call.sector_config))
       => /\ result.exc = "none"
          /\ LET overrides == Get(call.sector_config, "section_overrides", <<>>)
             IN  \A e \in 1..Len(overrides) :
                    LET sid == ResolveKey(overrides[e].k)
                    IN  result.val.sections[sid.n] =
                            build_effective_section(BaseCatalog, sid, overrides[e].v).val
    /\ (/\ call.op = "validate_section_content"
        /\ result.exc = "none"
        /\ ValidId(call.section_id)
        /\ Accepted(call.framework)
        /\ OverridesAreStructs(call.framework))
       => LET overrides == Get(call.framework, "section_overrides", <<>>)
          IN  \A e \in 1..Len(overrides) :
                 (/\ ResolveKey(overrides[e].k) = call.section_id
                  /\ "word_count" \in DOMAIN overrides[e].v.d
                  /\ BothBounds(overrides[e].v.d["word_count"]))
                 => Messages(result.val) =
                        WarningsFor(call.section_id, overrides[e].v.d["word_count"],
                                    WordCount(call.content))

(***************************************************************************)
(* Properties of storing and merging                                       *)
(***************************************************************************)
\* C28: for every framework accepted by create, whether its
\* section_overrides uses integer keys, string keys or both forms for the
\* same section id, get_effective(id) after create returns the same
\* effective section list as build_effective_framework computed on the
\* config before it was stored.
C28_PersistenceIsTransparent ==
    (/\ call.op = "create"
     /\ result.exc = "none"
     /\ Len(result.val.errors) = 0)
    => LET after  == get_effective(BASE_SECTIONS, store, StrOf(result.val.fid).s)
           before == build_effective_framework(BASE_SECTIONS, call.framework)
       IN  /\ after.exc = "none"
           /\ before.exc = "none"
           /\ after.val # None
           /\ after.val.sections = before.val.sections

(***************************************************************************)
(* A report is assembled with citations and then checked                   *)
(***************************************************************************)
\* Citation records as research hands them over: any id, or none
AssemblyRecords ==
    {[id |-> v, title |-> t] : v \in {None, I(0), I(1), I(7)}, t \in {"A", "B"}}

AssemblyCitationLists == ListsUpTo(AssemblyRecords, MaxCitationRecords)

AssemblySectionLists ==
    {<<>>} \cup {<<s>> : s \in SectionResultArgs}

AssembleCited ==
    /\ Idle
    /\ \E sections \in AssemblySectionLists, citations \in AssemblyCitationLists :
           /\ call' = [op |-> "assemble_report", sections |-> sections,
                       citations |-> citations]
           /\ result' = [exc |-> "none",
                         val |-> assemble_report(sections, [sector_id |-> "semi"],
                                                 citations)]
    /\ UNCHANGED <<BASE_SECTIONS, sector_config, store, companies, reports>>

\* run_qa_checks on the report just assembled
RunQAChecksOnAssembled ==
    /\ call.op = "assemble_report"
    /\ call' = [op |-> "run_qa_checks", report |-> result.val]
    /\ result' = [exc |-> "none", val |-> run_qa_checks(result.val)]
    /\ UNCHANGED <<BASE_SECTIONS, sector_config, store, companies, reports>>

NextAssembly ==
    \/ AssembleCited
    \/ RunQAChecksOnAssembled
    \/ Finish

SpecAssembly == Init /\ [][NextAssembly]_vars

(***************************************************************************)
(* Properties of assembly followed by QA                                   *)
(***************************************************************************)
\* C29: for every report produced by assemble_report from a list of N
\* citation records, whatever ids they held before, the report's citations
\* carry ids 1..N in list order, so run_qa_checks on that report reports
\* citations.sequential_numbering as passing and citations.total_count with
\* value N; with no citations the report's citation list is empty and
\* sequential_numbering also passes.
C29_NumberedBeforeQA ==
    /\ call.op = "assemble_report" =>
          /\ Len(result.val.citations) = Len(call.citations)
          /\ \A i \in 1..Len(call.citations) :
                /\ result.val.citations[i].id = I(i)
                /\ result.val.citations[i].title = call.citations[i].title
    /\ call.op = "run_qa_checks" =>
          LET checks == ChecksOf(result.val, "citations")
              N      == Len(call.report.citations)
          IN  /\ CheckNamed(checks, "sequential_numbering").pass
              /\ CheckNamed(checks, "total_count").value = N
              /\ \A i \in 1..N : call.report.citations[i].id = I(i)

\* A report assembled from three records with the ids none, 7 and 7 was
\* checked: numbering passes and three citations are counted
C29_Witness ==
    /\ call.op = "run_qa_checks"
    /\ Len(call.report.citations) = 3
    /\ CheckNamed(ChecksOf(result.val, "citations"), "sequential_numbering").pass
    /\ CheckNamed(ChecksOf(result.val, "citations"), "total_count").value = 3

\* A report assembled without citations was checked
C29_WitnessEmpty ==
    /\ call.op = "run_qa_checks"
    /\ call.report.citations = <<>>
    /\ CheckNamed(ChecksOf(result.val, "citations"), "sequential_numbering").pass
    /\ CheckNamed(ChecksOf(result.val, "citations"), "total_count").value = 0

(***************************************************************************)
(* Reports of eleven sections with given word counts                       *)
(***************************************************************************)
\* The result of writing section n in count words; the text itself is left
\* out, the checks on the total read the counts alone
CountedSection(n, count) ==
    [section_id |-> n, name |-> BaseOf(n).name, content |-> <<>>,
     word_count |-> count, status |-> "generated", error |-> ""]

BaseMin(n) == BaseOf(n).word_count.min.n
BaseMax(n) == BaseOf(n).word_count.max.n

\* Every section at one end of its base range
AtTheBounds ==
    {[n \in 1..11 |-> CountedSection(n, IF n \in atMax THEN BaseMax(n) ELSE BaseMin(n))] :
        atMax \in SUBSET (1..11)}

\* What one section may be over its base maximum
Excess == {1, 599, 600, 2600, 2601}

\* Every section at its base maximum but one, which is over it; every
\* section at its base minimum but one, which is one word under it
OutOfRange ==
    {[n \in 1..11 |-> CountedSection(n, IF n = k THEN BaseMax(n) + x ELSE BaseMax(n))] :
        k \in 1..11, x \in Excess}
    \cup {[n \in 1..11 |-> CountedSection(n, IF n = k THEN BaseMin(n) - 1 ELSE BaseMin(n))] :
        k \in 1..11}

AssembleCounted ==
    /\ Idle
    /\ \E sections \in AtTheBounds \cup OutOfRange :
           /\ call' = [op |-> "assemble_report", sections |-> sections,
                       citations |-> <<>>]
           /\ result' = [exc |-> "none",
                         val |-> assemble_report(sections, [sector_id |-> "semi"], <<>>)]
    /\ UNCHANGED <<BASE_SECTIONS, sector_config, store, companies, reports>>

NextTotals ==
    \/ AssembleCounted
    \/ RunQAChecksOnAssembled
    \/ Finish

SpecTotals == Init /\ [][NextTotals]_vars

(***************************************************************************)
(* Properties of the total word count                                      *)
(***************************************************************************)
ElevenSections(report) ==
    /\ Len(report.sections) = 11
    /\ \A i \in 1..11 : report.sections[i].section_id = i

WithinBase(section) ==
    /\ BaseMin(section.section_id) <= section.word_count
    /\ section.word_count <= BaseMax(section.section_id)

AllWithinBase(report) == \A i \in 1..11 : WithinBase(report.sections[i])

\* C30: for every report of 11 sections in which each section's word_count
\* lies within that section's base word_count range, the report's total
\* word count is at most 7400, so structure.total_word_count (which passes
\* iff 8000 <= total <= 10000) fails and overall_pass is false; conversely
\* any report passing total_word_count has at least one section above its
\* base maximum.
C30_BaseRangesMissTheTotal ==
    /\ (call.op = "assemble_report" /\ ElevenSections(result.val)
        /\ AllWithinBase(result.val))
       => result.val.word_count <= 7400
    /\ (call.op = "run_qa_checks" /\ ElevenSections(call.report)) =>
          LET check == CheckNamed(ChecksOf(result.val, "structure"), "total_word_count")
              total == call.report.word_count
          IN  /\ check.pass <=> (8000 <= total /\ total <= 10000)
              /\ AllWithinBase(call.report) =>
                    /\ total <= 7400
                    /\ ~check.pass
                    /\ ~result.val.overall_pass
              /\ check.pass =>
                    \E i \in 1..11 :
                        call.report.sections[i].word_count > BaseMax(i)

\* A report with every section at its base maximum was checked: 7400 words,
\* and the total check fails
C30_Witness ==
    /\ call.op = "run_qa_checks"
    /\ ElevenSections(call.report)
    /\ \A i \in 1..11 : call.report.sections[i].word_count = BaseMax(i)
    /\ call.report.word_count = 7400
    /\ ~CheckNamed(ChecksOf(result.val, "structure"), "total_word_count").pass
    /\ ~result.val.overall_pass

\* A report of 8000 words passed the total check with section 4 over its
\* base maximum
C30_WitnessPassing ==
    /\ call.op = "run_qa_checks"
    /\ ElevenSections(call.report)
    /\ call.report.word_count = 8000
    /\ call.report.sections[4].word_count = BaseMax(4) + 600
    /\ CheckNamed(ChecksOf(result.val, "structure"), "total_word_count").pass

====
